---- MODULE Spec2Model ----
(***************************************************************************)
(* Model of the FFIEC bulk-download client (ffiec_data_collector):         *)
(*   - FFIECDownloader: the stateful product -> period -> format ->        *)
(*     download protocol over one requests.Session;                        *)
(*   - ThumbprintValidator / PageThumbprint: structural drift detection;   *)
(*   - ValidatedFFIECDownloader: validation in front of the download.      *)
(* Every HTTP exchange (one request sent, its response received and        *)
(* processed) is one step; pc names the exchange the running operation     *)
(* performs next.                                                          *)
(***************************************************************************)
EXTENDS Integers, Sequences, FiniteSets, TLC

VARIABLES
    sess,         \* fields of the FFIECDownloader instance
    pc,           \* "idle", or the exchange the running operation does next
    call,         \* name, arguments and locals of the running / last operation
    trace,        \* kinds of the requests sent by the running / last operation
    lastReq,      \* form data of the latest request of the running / last operation
    lastAns,      \* outcome, headers and bytes of the response to lastReq
    lastResp,     \* token fields carried by the most recent response received
    lastBearing,  \* token fields of the most recent token-bearing response
    listed,       \* period selector of the response that set sess.current_product
    listOwner,    \* the product whose selector sess.available_periods was parsed from
    raised,       \* exception the last operation ended with (NoError if none)
    result,       \* value the last operation returned
    written,      \* files written into download_dir by the running / last operation
    thumbprint_dir,   \* ThumbprintValidator.thumbprint_dir: page type -> baseline file
    skip_validation,  \* ValidatedFFIECDownloader.skip_validation
    vcall,        \* the validator operation that ran last
    fetched,      \* the page the validator fetched last
    vraised,      \* exception the last validator operation ended with
    vresult,      \* value the last validate returned
    wcall,        \* arguments and progress of the running / last validated download
    results,      \* the dictionary validate_all is filling / returned last
    hashed,       \* two fingerprints, the second made from the first, and how
    xbrl,         \* the running / last process_xbrl_file call
    lookup,       \* a period list, a date, and what _find_period_by_date gave for it
    conc,         \* two validate calls running at once, step by step
    insts,        \* two FFIECDownloader instances, each running a download
    applied       \* a function of the package, its arguments, and its value on them

dlvars == <<sess, pc, call, trace, lastReq, lastAns, lastResp, lastBearing, listed,
            listOwner, raised, result, written>>

vvars == <<thumbprint_dir, skip_validation, vcall, fetched, vraised, vresult, wcall,
           results, hashed, xbrl,
                   lookup, conc, insts, applied>>

vars == <<dlvars, vvars>>

None == "None"

(***************************************************************************)
(* Bounds of the model.                                                    *)
(***************************************************************************)
\* number of distinct __VIEWSTATE values the portal issues
MaxTok == 2
\* longest period selector the portal returns
MaxPeriods == 2

(***************************************************************************)
(* Strings that the code parses are sequences of one-character strings.    *)
(***************************************************************************)
Digits == <<"0", "1", "2", "3", "4", "5", "6", "7", "8", "9">>

IsDigit(c) == \E i \in 1..10 : Digits[i] = c

DigitVal(c) == (CHOOSE i \in 1..10 : Digits[i] = c) - 1

\* str.isdigit(): non-empty and every character a digit
isdigit(s) == Len(s) > 0 /\ \A i \in 1..Len(s) : IsDigit(s[i])

Num2(s, i) == 10 * DigitVal(s[i]) + DigitVal(s[i + 1])

Num4(s, i) == 100 * Num2(s, i) + Num2(s, i + 2)

Pad2(n) == <<Digits[(n \div 10) + 1], Digits[(n % 10) + 1]>>

Pad4(n) == Pad2(n \div 100) \o Pad2(n % 100)

IsLeap(y) == (y % 4 = 0 /\ y % 100 # 0) \/ y % 400 = 0

DaysInMonth(y, m) ==
    IF m = 2 THEN (IF IsLeap(y) THEN 29 ELSE 28)
    ELSE IF m \in {4, 6, 9, 11} THEN 30 ELSE 31

ValidDate(y, m, d) ==
    /\ y \in 1..9999
    /\ m \in 1..12
    /\ d \in 1..DaysInMonth(y, m)

NoDate == [y |-> 0, m |-> 0, d |-> 0]

\* datetime.strptime(s, "%Y%m%d") on an 8-digit string: NoDate stands for ValueError
strptime_Ymd(s) ==
    LET y == Num4(s, 1)
        m == Num2(s, 5)
        d == Num2(s, 7)
    IN IF ValidDate(y, m, d) THEN [y |-> y, m |-> m, d |-> d] ELSE NoDate

\* date.strftime("%m/%d/%Y")
strftime_mdY(dt) == Pad2(dt.m) \o <<"/">> \o Pad2(dt.d) \o <<"/">> \o Pad4(dt.y)

(***************************************************************************)
(* Product, FileFormat, ReportingPeriod.                                   *)
(***************************************************************************)
Product == {"CALL_SINGLE", "CALL_FOUR_PERIODS", "UBPR_RATIO_SINGLE",
            "UBPR_RATIO_FOUR", "UBPR_RANK_FOUR", "UBPR_STATS_FOUR"}

Product_form_value(p) ==
    CASE p = "CALL_SINGLE" -> "ReportingSeriesSinglePeriod"
      [] p = "CALL_FOUR_PERIODS" -> "ReportingSeriesSubsetSchedulesFourPeriods"
      [] p = "UBPR_RATIO_SINGLE" -> "PerformanceReportingSeriesSinglePeriod"
      [] p = "UBPR_RATIO_FOUR" -> "PerformanceReportingSeriesFourPeriods"
      [] p = "UBPR_RANK_FOUR" -> "PerformanceReportingSeriesRank"
      [] p = "UBPR_STATS_FOUR" -> "PerformanceReportingSeriesStats"

FileFormat == {"TSV", "XBRL"}

FileFormat_form_value(f) ==
    CASE f = "TSV" -> "TSVRadioButton"
      [] f = "XBRL" -> "XBRLRadiobutton"

NoPeriod == [value |-> None, date_str |-> <<>>]

\* ReportingPeriod(value, date_str)
ReportingPeriod(v, ds) == [value |-> v, date_str |-> ds]

Date_03_31_2024 == <<"0", "3", "/", "3", "1", "/", "2", "0", "2", "4">>

Date_12_31_2023 == <<"1", "2", "/", "3", "1", "/", "2", "0", "2", "3">>

Date_06_30_2024 == <<"0", "6", "/", "3", "0", "/", "2", "0", "2", "4">>

Key_20231231 == <<"2", "0", "2", "3", "1", "2", "3", "1">>

\* the periods the modelled portal lists
PortalPeriods == {ReportingPeriod("146", Date_03_31_2024),
                  ReportingPeriod("145", Date_12_31_2023)}

\* the products the modelled caller asks for
CallerProducts == {"CALL_SINGLE", "UBPR_RATIO_SINGLE"}

\* the period arguments the modelled caller passes: objects and date strings
PeriodArgs ==
    {[is_str |-> FALSE, period |-> ReportingPeriod("146", Date_03_31_2024), str |-> <<>>]}
    \cup {[is_str |-> TRUE, period |-> NoPeriod, str |-> s] :
             s \in {Key_20231231, Date_06_30_2024}}


(***************************************************************************)
(* DownloadRequest.get_expected_filename.  display_name is kept as its     *)
(* words, so that "Call" in display_name is a membership test.             *)
(***************************************************************************)
Product_display_name(p) ==
    CASE p = "CALL_SINGLE" -> <<"Call", "Reports", "--", "Single", "Period">>
      [] p = "CALL_FOUR_PERIODS" ->
            <<"Call", "Reports", "--", "Balance", "Sheet,", "Income", "Statement,",
              "Past", "Due", "--", "Four", "Periods">>
      [] p = "UBPR_RATIO_SINGLE" -> <<"UBPR", "Ratio", "--", "Single", "Period">>
      [] p = "UBPR_RATIO_FOUR" -> <<"UBPR", "Ratio", "--", "Four", "Periods">>
      [] p = "UBPR_RANK_FOUR" -> <<"UBPR", "Rank", "--", "Four", "Periods">>
      [] p = "UBPR_STATS_FOUR" -> <<"UBPR", "Stats", "--", "Four", "Periods">>

HasWord(words, w) == \E i \in 1..Len(words) : words[i] = w

is_call_report(p) == HasWord(Product_display_name(p), "Call")

is_ubpr(p) == HasWord(Product_display_name(p), "UBPR")

(***************************************************************************)
(* Errors and results.                                                     *)
(***************************************************************************)
Error(type, msg) == [type |-> type, msg |-> msg]

NoError == Error(None, None)

ErrNoViewState == Error("ValueError", "Could not extract ViewState from page")

ErrNoDates == Error("ValueError", "No dates found for product")

ErrProductFirst == Error("ValueError", "Must select product first")

ErrProductPeriodFirst == Error("ValueError", "Must select product and period first")

ErrNoPeriods == Error("ValueError", "No periods available - select product first")

ErrPeriodNotFound == Error("ValueError", "Period not found in available periods")

ErrStrptime == Error("ValueError", "time data does not match format")

ErrHTTP == Error("HTTPError", "raise_for_status")

ErrConnection == Error("ConnectionError", "request failed")

NoDownloadResult ==
    [success |-> FALSE, filename |-> <<>>, size_bytes |-> 0, content_type |-> None,
     error_message |-> None, last_updated |-> NoDate, call_updated |-> NoDate,
     ubpr_updated |-> NoDate]

Result(kind, periods, dr, content) ==
    [kind |-> kind, periods |-> periods, dr |-> dr, content |-> content]

NoResult == Result("none", <<>>, NoDownloadResult, <<>>)

(***************************************************************************)
(* What the portal answers.  A response is what the code reads of it: the  *)
(* outcome of the request, the Content-Type and Content-Disposition        *)
(* headers, the two state markers of the body, the period selector of the  *)
(* body, the "Updated:" texts of the body and the body's bytes.            *)
(***************************************************************************)
ViewStateName == <<"dDwtMTA", "dDwtMTB", "dDwtMTC", "dDwtMTD">>

ViewStates == {ViewStateName[i] : i \in 1..MaxTok}

Generators == {"651D9554"}

NoToken == [vs |-> None, gen |-> None]

\* the two state markers of a body: both with a value, or one or both missing
TokenFields ==
    [vs : ViewStates, gen : Generators] \cup
    {NoToken, [vs |-> ViewStateName[1], gen |-> None], [vs |-> None, gen |-> "651D9554"]}

CT_HTML == "text/html; charset=utf-8"

CT_OCTET == "application/octet-stream"

CT_JSON == "application/json"

\* "text/html" in content_type
is_html(ct) == ct = CT_HTML

\* "application/octet-stream" in content_type
is_octet(ct) == ct = CT_OCTET

CD_ATTACH == "attachment"

CD_ATTACH_NAMED == "attachment; filename=\"server.zip\""

\* "attachment" in content_disposition
is_attachment(cd) == cd \in {CD_ATTACH, CD_ATTACH_NAMED}

\* re.search(r'filename="?([^"]+)"?', content_disposition): <<>> when no match
disposition_filename(cd) == IF cd = CD_ATTACH_NAMED THEN <<"server.zip">> ELSE <<>>

Bodies == {<<80, 75>>, <<80, 75, 3>>}

Text_7_15_2025 == <<"7", "/", "1", "5", "/", "2", "0", "2", "5">>

Text_6_30_2025 == <<"6", "/", "3", "0", "/", "2", "0", "2", "5">>

\* the "Call Updated: " and "UBPR Updated: " texts of the modelled portal root
UpdatedTexts == {<<Text_7_15_2025, Text_6_30_2025>>}

Response(status, ct, cd, tok, sel, opts, body, ctext, utext) ==
    [status |-> status, content_type |-> ct, disposition |-> cd, token |-> tok,
     select_present |-> sel, options |-> opts, body |-> body,
     call_text |-> ctext, ubpr_text |-> utext]

\* the request raised inside session.get / session.post, or raise_for_status raised
FailedResponses ==
    {Response(st, "", "", NoToken, FALSE, <<>>, <<>>, <<>>, <<>>) :
        st \in {"conn_error", "http_error"}}

\* sequences of at most n portal periods
PeriodLists(n) == UNION {[1..k -> PortalPeriods] : k \in 0..n}

GetResponses ==
    FailedResponses \cup
    {Response("ok", CT_HTML, "", tok, FALSE, <<>>, <<>>, texts[1], texts[2]) :
        tok \in TokenFields, texts \in UpdatedTexts}

\* answers to the product POST: pages with both markers and any period selector or
\* none, pages lacking a marker, and a non-HTML answer
ProductResponses ==
    FailedResponses \cup
    {Response("ok", CT_HTML, "", tok, TRUE, opts, <<>>, <<>>, <<>>) :
        tok \in [vs : ViewStates, gen : Generators], opts \in PeriodLists(MaxPeriods)} \cup
    {Response("ok", CT_HTML, "", tok, FALSE, <<>>, <<>>, <<>>, <<>>) :
        tok \in TokenFields} \cup
    {Response("ok", CT_JSON, "", NoToken, FALSE, <<>>, <<>>, <<>>, <<>>)}

\* answers to the period and format POSTs, whose body the code reads only for the
\* markers
SelectResponses ==
    FailedResponses \cup
    {Response("ok", CT_HTML, "", tok, FALSE, <<>>, <<>>, <<>>, <<>>) :
        tok \in TokenFields} \cup
    {Response("ok", CT_JSON, "", NoToken, FALSE, <<>>, <<>>, <<>>, <<>>)}

\* answers to the download-trigger POST: every content type and disposition; the
\* bytes vary where download reads them
TriggerResponses ==
    FailedResponses \cup
    {r \in {Response("ok", ct, cd, tok, FALSE, <<>>, b, <<>>, <<>>) :
                ct \in {CT_OCTET, CT_JSON, "", CT_HTML},
                cd \in {"", CD_ATTACH, CD_ATTACH_NAMED},
                tok \in TokenFields, b \in Bodies} :
        /\ r.content_type # CT_HTML => r.token = NoToken
        /\ r.content_type = CT_HTML => r.disposition # CD_ATTACH_NAMED
        /\ r.body # <<80, 75>> =>
              /\ r.content_type = CT_OCTET \/ r.disposition # ""
              /\ r.content_type = CT_HTML => r.token.vs # None /\ r.token.gen # None}

(***************************************************************************)
(* FFIECDownloader: helpers.                                               *)
(***************************************************************************)
\* FFIECDownloader.__init__
NewSession ==
    [viewstate |-> None, viewstate_generator |-> None, current_product |-> None,
     current_period |-> NoPeriod, available_periods |-> <<>>,
     call_updated |-> NoDate, ubpr_updated |-> NoDate]

\* the number a string of digits denotes
NumOf(s) ==
    LET F[i \in 0..Len(s)] == IF i = 0 THEN 0 ELSE 10 * F[i - 1] + DigitVal(s[i])
    IN F[Len(s)]

\* datetime.strptime(text, "%m/%d/%Y"): one or two digits of month and of day, four
\* of year; NoDate stands for ValueError
strptime_mdY(text) ==
    LET slashes == {i \in 1..Len(text) : text[i] = "/"}
    IN IF Cardinality(slashes) # 2 THEN NoDate
       ELSE LET i == CHOOSE k \in slashes : \A l \in slashes : k <= l
                j == CHOOSE k \in slashes : \A l \in slashes : k >= l
                mt == SubSeq(text, 1, i - 1)
                dt == SubSeq(text, i + 1, j - 1)
                yt == SubSeq(text, j + 1, Len(text))
            IN IF /\ Len(mt) \in 1..2 /\ isdigit(mt)
                  /\ Len(dt) \in 1..2 /\ isdigit(dt)
                  /\ Len(yt) = 4 /\ isdigit(yt)
                  /\ ValidDate(NumOf(yt), NumOf(mt), NumOf(dt))
               THEN [y |-> NumOf(yt), m |-> NumOf(mt), d |-> NumOf(dt)]
               ELSE NoDate

\* group(1) of the regex (\d{1,2}/\d{1,2}/\d{4}) on the text that follows an
\* "Updated: " marker; <<>> when the regex does not match there
updated_group(text) ==
    LET digits(i, n) == i + n - 1 <= Len(text) /\ \A k \in i..(i + n - 1) : IsDigit(text[k])
        slash(i) == i <= Len(text) /\ text[i] = "/"
        found == {ab \in {1, 2} \X {1, 2} :
                     /\ digits(1, ab[1]) /\ slash(ab[1] + 1)
                     /\ digits(ab[1] + 2, ab[2]) /\ slash(ab[1] + ab[2] + 2)
                     /\ digits(ab[1] + ab[2] + 3, 4)}
    IN IF found = {} THEN <<>>
       ELSE LET ab == CHOOSE x \in found : TRUE
            IN SubSeq(text, 1, ab[1] + ab[2] + 6)

\* one "Updated: " text of _extract_last_updated_dates: the regex and
\* strptime(.., "%m/%d/%Y").date(); NoDate is None
parse_updated(text) == strptime_mdY(updated_group(text))

\* ReportingPeriod.date
ReportingPeriod_date(p) == strptime_mdY(p.date_str)

\* ReportingPeriod.yyyymmdd: date.strftime("%Y%m%d")
yyyymmdd(p) ==
    LET dt == ReportingPeriod_date(p) IN Pad4(dt.y) \o Pad2(dt.m) \o Pad2(dt.d)

\* period.date.strftime("%m%d%Y")
date_suffix(ds) ==
    LET dt == strptime_mdY(ds) IN Pad2(dt.m) \o Pad2(dt.d) \o Pad4(dt.y)

\* display_name.replace("--", "").strip(): the words without the "--" separators;
\* the doubled blank the replacement leaves is the piece "  "
strip_dashes(words) ==
    LET F[i \in 0..Len(words)] ==
            IF i = 0 THEN <<>>
            ELSE IF words[i] = "--" THEN F[i - 1] \o <<" ">>
            ELSE IF i = 1 THEN <<words[i]>>
            ELSE F[i - 1] \o <<" ", words[i]>>
    IN F[Len(words)]

\* get_expected_filename with the display label for every product
get_expected_filename_DisplayLabel(product, period, format) ==
    LET format_suffix == IF format = "XBRL" THEN "XBRL" ELSE "TSV"
    IN <<"FFIEC CDR", " ">> \o strip_dashes(Product_display_name(product))
          \o <<" ", format_suffix, " ">> \o date_suffix(period.date_str) \o <<".zip">>

get_expected_filename(product, period, format) ==
    LET product_name ==
            IF is_call_report(product)
            THEN (IF product = "CALL_SINGLE" THEN <<"Call Bulk">>
                  ELSE <<"Call Bulk Subset of Schedules">>)
            ELSE strip_dashes(Product_display_name(product))
        format_suffix == IF format = "XBRL" THEN "XBRL" ELSE "TSV"
    IN <<"FFIEC CDR", " ">> \o product_name \o <<" ", format_suffix, " ">>
          \o date_suffix(period.date_str) \o <<".zip">>

\* ReportingPeriod.quarter with the month divided as it is
ReportingPeriod_quarter_NoShift(p) == ReportingPeriod_date(p).m \div 3 + 1

\* ReportingPeriod.quarter
ReportingPeriod_quarter(p) == (ReportingPeriod_date(p).m - 1) \div 3 + 1

\* ReportingPeriod.year
ReportingPeriod_year(p) == ReportingPeriod_date(p).y

\* _extract_viewstate succeeds on a body: both markers have a value
has_viewstate(resp) == resp.token.vs # None /\ resp.token.gen # None

\* _get_last_updated_for_product
get_last_updated_for_product(s, product) ==
    IF is_call_report(product) THEN s.call_updated
    ELSE IF is_ubpr(product) THEN s.ubpr_updated
    ELSE NoDate

\* post that forgets the token when the request fails
post_DropsTokenOnFailure(s, resp) ==
    IF resp.status \in {"conn_error", "http_error"}
    THEN [s |-> [s EXCEPT !.viewstate = None, !.viewstate_generator = None],
          raised |-> IF resp.status = "conn_error" THEN ErrConnection ELSE ErrHTTP]
    ELSE IF is_html(resp.content_type)
    THEN (IF has_viewstate(resp)
          THEN [s |-> [s EXCEPT !.viewstate = resp.token.vs,
                                !.viewstate_generator = resp.token.gen],
                raised |-> NoError]
          ELSE [s |-> s, raised |-> ErrNoViewState])
    ELSE [s |-> s, raised |-> NoError]

\* post with the token of an HTML page never taken over
post_KeepsToken(s, resp) ==
    IF resp.status = "conn_error" THEN [s |-> s, raised |-> ErrConnection]
    ELSE IF resp.status = "http_error" THEN [s |-> s, raised |-> ErrHTTP]
    ELSE IF is_html(resp.content_type) /\ ~has_viewstate(resp)
    THEN [s |-> s, raised |-> ErrNoViewState]
    ELSE [s |-> s, raised |-> NoError]

\* _post, from the response on: the session after it and the exception it raises
post(s, resp) ==
    IF resp.status = "conn_error" THEN [s |-> s, raised |-> ErrConnection]
    ELSE IF resp.status = "http_error" THEN [s |-> s, raised |-> ErrHTTP]
    ELSE IF is_html(resp.content_type)
    THEN (IF has_viewstate(resp)
          THEN [s |-> [s EXCEPT !.viewstate = resp.token.vs,
                                !.viewstate_generator = resp.token.gen],
                raised |-> NoError]
          ELSE [s |-> s, raised |-> ErrNoViewState])
    ELSE [s |-> s, raised |-> NoError]

\* initialize that assigns what it extracted before it raises
initialize_PartialAssign(s, resp) ==
    IF resp.status = "conn_error" THEN [s |-> s, raised |-> ErrConnection]
    ELSE IF resp.status = "http_error" THEN [s |-> s, raised |-> ErrHTTP]
    ELSE [s |-> [s EXCEPT !.viewstate = resp.token.vs,
                          !.viewstate_generator = resp.token.gen,
                          !.call_updated = parse_updated(resp.call_text),
                          !.ubpr_updated = parse_updated(resp.ubpr_text)],
          raised |-> IF has_viewstate(resp) THEN NoError ELSE ErrNoViewState]

\* initialize whose two dates are parsed under one try
initialize_DatesTogether(s, resp) ==
    IF resp.status = "conn_error" THEN [s |-> s, raised |-> ErrConnection]
    ELSE IF resp.status = "http_error" THEN [s |-> s, raised |-> ErrHTTP]
    ELSE IF ~has_viewstate(resp) THEN [s |-> s, raised |-> ErrNoViewState]
    ELSE LET both == /\ parse_updated(resp.call_text) # NoDate
                     /\ parse_updated(resp.ubpr_text) # NoDate
         IN [s |-> [s EXCEPT !.viewstate = resp.token.vs,
                             !.viewstate_generator = resp.token.gen,
                             !.call_updated =
                                 IF both THEN parse_updated(resp.call_text) ELSE NoDate,
                             !.ubpr_updated =
                                 IF both THEN parse_updated(resp.ubpr_text) ELSE NoDate],
             raised |-> NoError]

\* initialize, from the response on
initialize(s, resp) ==
    IF resp.status = "conn_error" THEN [s |-> s, raised |-> ErrConnection]
    ELSE IF resp.status = "http_error" THEN [s |-> s, raised |-> ErrHTTP]
    ELSE IF ~has_viewstate(resp) THEN [s |-> s, raised |-> ErrNoViewState]
    ELSE [s |-> [s EXCEPT !.viewstate = resp.token.vs,
                          !.viewstate_generator = resp.token.gen,
                          !.call_updated = parse_updated(resp.call_text),
                          !.ubpr_updated = parse_updated(resp.ubpr_text)],
          raised |-> NoError]

\* index of the first period of ps whose date_str is ds, 0 if there is none
first_match(ps, ds) ==
    IF \E i \in 1..Len(ps) : ps[i].date_str = ds
    THEN CHOOSE i \in 1..Len(ps) :
            /\ ps[i].date_str = ds
            /\ \A j \in 1..(i - 1) : ps[j].date_str # ds
    ELSE 0

\* _find_period_by_date(date_str, periods); periods = <<>> also stands for None
find_period_by_date(s, date_str, periods) ==
    LET ps == IF periods # <<>> THEN periods ELSE s.available_periods
        is_key == Len(date_str) = 8 /\ isdigit(date_str)
        date_obj == IF is_key THEN strptime_Ymd(date_str) ELSE NoDate
        ds == IF is_key /\ date_obj # NoDate THEN strftime_mdY(date_obj) ELSE date_str
    IN IF ps = <<>> THEN [raised |-> ErrNoPeriods, period |-> NoPeriod]
       ELSE IF is_key /\ date_obj = NoDate
       THEN [raised |-> ErrStrptime, period |-> NoPeriod]
       ELSE IF first_match(ps, ds) = 0
       THEN [raised |-> ErrPeriodNotFound, period |-> NoPeriod]
       ELSE [raised |-> NoError, period |-> ps[first_match(ps, ds)]]

\* a lookup: the list, the two forms of the date looked for, whether the date is
\* that of an entry of the list, and what each form gave
Lookup(periods, key, slash, in_list, done, by_key, by_slash) ==
    [periods |-> periods, key |-> key, slash |-> slash, in_list |-> in_list,
     done |-> done, by_key |-> by_key, by_slash |-> by_slash]

NotResolved == [raised |-> NoError, period |-> NoPeriod]

NoLookup == Lookup(<<>>, <<>>, <<>>, FALSE, {}, NotResolved, NotResolved)

\* _find_period_by_date(key, periods), the date given as YYYYMMDD
ResolveByKey ==
    /\ lookup # NoLookup
    /\ "key" \notin lookup.done
    /\ lookup' = [lookup EXCEPT
                     !.done = lookup.done \cup {"key"},
                     !.by_key = find_period_by_date(sess, lookup.key, lookup.periods)]
    /\ UNCHANGED <<dlvars, thumbprint_dir, skip_validation, vcall, fetched, vraised,
                   vresult, wcall, results, hashed, xbrl, conc,
                   insts, applied>>

\* _find_period_by_date(slash, periods), the date given as MM/DD/YYYY
ResolveBySlash ==
    /\ lookup # NoLookup
    /\ "slash" \notin lookup.done
    /\ lookup' = [lookup EXCEPT
                     !.done = lookup.done \cup {"slash"},
                     !.by_slash = find_period_by_date(sess, lookup.slash, lookup.periods)]
    /\ UNCHANGED <<dlvars, thumbprint_dir, skip_validation, vcall, fetched, vraised,
                   vresult, wcall, results, hashed, xbrl, conc,
                   insts, applied>>

\* get_latest_period, from the list select_product returned on
get_latest_period(periods) ==
    IF periods = <<>> THEN [raised |-> ErrNoPeriods, period |-> NoPeriod]
    ELSE [raised |-> NoError, period |-> periods[1]]

(***************************************************************************)
(* Functions of the package applied to arguments: initialize to a response *)
(* of the portal root, the properties of a ReportingPeriod, and            *)
(* DownloadRequest.get_expected_filename.                                  *)
(***************************************************************************)
\* what an application gave: the exception, or the session after initialize, or
\* the quarter, year and key of a period, or a file name
Value(raised_, s, quarter, year, key, filename) ==
    [raised |-> raised_, sess |-> s, quarter |-> quarter, year |-> year, key |-> key,
     filename |-> filename]

NoValue == Value(NoError, NewSession, 0, 0, <<>>, <<>>)

NoResponse == Response(None, "", "", NoToken, FALSE, <<>>, <<>>, <<>>, <<>>)

Applied(fn, resp, product, period, format, done, value) ==
    [fn |-> fn, resp |-> resp, product |-> product, period |-> period,
     format |-> format, done |-> done, value |-> value]

NoApplied == Applied(None, NoResponse, None, NoPeriod, None, FALSE, NoValue)

\* initialize() on a new FFIECDownloader, the GET answered by applied.resp
ApplyInitialize ==
    /\ applied.fn = "initialize" /\ ~applied.done
    /\ LET r == initialize(NewSession, applied.resp)
       IN applied' = [applied EXCEPT !.done = TRUE,
                                     !.value = [NoValue EXCEPT !.raised = r.raised,
                                                               !.sess = r.s]]
    /\ UNCHANGED <<dlvars, thumbprint_dir, skip_validation, vcall, fetched, vraised,
                   vresult, wcall, results, hashed, xbrl, lookup, conc, insts>>

\* period.quarter, period.year and period.yyyymmdd; each raises the ValueError of
\* period.date
ApplyPeriodProperties ==
    /\ applied.fn = "period" /\ ~applied.done
    /\ applied' =
          [applied EXCEPT
              !.done = TRUE,
              !.value = IF ReportingPeriod_date(applied.period) = NoDate
                        THEN [NoValue EXCEPT !.raised = ErrStrptime]
                        ELSE [NoValue EXCEPT
                                 !.quarter = ReportingPeriod_quarter(applied.period),
                                 !.year = ReportingPeriod_year(applied.period),
                                 !.key = yyyymmdd(applied.period)]]
    /\ UNCHANGED <<dlvars, thumbprint_dir, skip_validation, vcall, fetched, vraised,
                   vresult, wcall, results, hashed, xbrl, lookup, conc, insts>>

\* DownloadRequest(product, period, format).get_expected_filename()
ApplyExpectedFilename ==
    /\ applied.fn = "filename" /\ ~applied.done
    /\ applied' =
          [applied EXCEPT
              !.done = TRUE,
              !.value = IF ReportingPeriod_date(applied.period) = NoDate
                        THEN [NoValue EXCEPT !.raised = ErrStrptime]
                        ELSE [NoValue EXCEPT !.filename =
                                 get_expected_filename(applied.product, applied.period,
                                                       applied.format)]]
    /\ UNCHANGED <<dlvars, thumbprint_dir, skip_validation, vcall, fetched, vraised,
                   vresult, wcall, results, hashed, xbrl, lookup, conc, insts>>

(***************************************************************************)
(* The form data of the five requests.                                     *)
(***************************************************************************)
FormData(kind, vs, gen, product, period, format) ==
    [kind |-> kind, VIEWSTATE |-> vs, VIEWSTATEGENERATOR |-> gen,
     ListBox1 |-> product, DatesDropDownList |-> period, FormatType |-> format]

NoRequest == FormData(None, None, None, None, None, None)

\* session.get(BASE_URL)
GetData == FormData("GET", None, None, None, None, None)

\* select_product: __EVENTTARGET ListBox1
ProductData(s, product) ==
    FormData("product", s.viewstate, s.viewstate_generator,
             Product_form_value(product), None, None)

\* select_period: __EVENTTARGET DatesDropDownList
PeriodData(s, period) ==
    FormData("period", s.viewstate, s.viewstate_generator,
             Product_form_value(s.current_product), period.value, None)

\* select_format: __EVENTTARGET the format's radio button
FormatData(s, format) ==
    FormData("format", s.viewstate, s.viewstate_generator,
             Product_form_value(s.current_product),
             IF s.current_period # NoPeriod THEN s.current_period.value ELSE None,
             FileFormat_form_value(format))

\* download: the Download_0 control
TriggerData(s, product, format) ==
    FormData("trigger", s.viewstate, s.viewstate_generator,
             Product_form_value(product),
             IF s.current_period # NoPeriod THEN s.current_period.value ELSE None,
             FileFormat_form_value(format))


(***************************************************************************)
(* FFIECDownloader: the operations, one step per HTTP exchange.            *)
(***************************************************************************)
NoArg == [is_str |-> FALSE, period |-> NoPeriod, str |-> <<>>]

Call(op, product, arg, format, save) ==
    [op |-> op, product |-> product, arg |-> arg, period |-> arg.period,
     format |-> format, save_to_disk |-> save]

NoCall == Call(None, None, NoArg, None, FALSE)

\* the token a received response carries: both state markers of its body
Carried(resp) ==
    IF resp.status = "ok" /\ has_viewstate(resp) THEN resp.token ELSE NoToken

\* a response the client takes a token from
Bearing(kind, resp) ==
    /\ resp.status = "ok"
    /\ kind = "GET" \/ is_html(resp.content_type)
    /\ resp.token.vs # None
    /\ resp.token.gen # None

\* what a response is classified by, and its bytes
Answer(resp) ==
    [status |-> resp.status, content_type |-> resp.content_type,
     disposition |-> resp.disposition, body |-> resp.body]

NoAnswer == [status |-> None, content_type |-> "", disposition |-> "", body |-> <<>>]

\* one request sent and its response received
Exchange(data, resp) ==
    /\ trace' = Append(trace, data.kind)
    /\ lastReq' = data
    /\ lastAns' = Answer(resp)
    /\ lastResp' = IF resp.status = "conn_error" THEN lastResp ELSE Carried(resp)
    /\ lastBearing' = IF Bearing(data.kind, resp) THEN resp.token ELSE lastBearing

NoExchange ==
    /\ lastReq' = NoRequest
    /\ lastAns' = NoAnswer
    /\ UNCHANGED <<lastResp, lastBearing>>

\* a caller starts an operation
Begin(c) ==
    /\ pc = "idle"
    /\ call' = c
    /\ trace' = <<>>
    /\ written' = <<>>

Return(v) == pc' = "idle" /\ raised' = NoError /\ result' = v

Raise(e) == pc' = "idle" /\ raised' = e /\ result' = NoResult

\* the frame once the operation has ended: its name stays, its locals are gone
Finished(c) == [NoCall EXCEPT !.op = c.op]

\* the frame after a step: dropped when the step ended the operation
Frame(c) == call' = IF pc' = "idle" THEN Finished(c) ELSE c

Continue(next) == pc' = next /\ raised' = NoError /\ result' = NoResult

ReturnsNone == Result("None", <<>>, NoDownloadResult, <<>>)

\* initialize()
CallInitialize ==
    /\ UNCHANGED vvars
    /\ Begin(Call("initialize", None, NoArg, None, FALSE))
    /\ Continue("GET")
    /\ NoExchange
    /\ UNCHANGED <<sess, listed, listOwner>>

\* select_product(product), up to its first request
CallSelectProduct(product) ==
    /\ UNCHANGED vvars
    /\ Begin(Call("select_product", product, NoArg, None, FALSE))
    /\ Continue(IF sess.viewstate = None THEN "GET" ELSE "POST_product")
    /\ NoExchange
    /\ UNCHANGED <<sess, listed, listOwner>>

\* select_period(period), up to its request
CallSelectPeriod(arg) ==
    /\ UNCHANGED vvars
    /\ pc = "idle"
    /\ trace' = <<>>
    /\ written' = <<>>
    /\ LET found == find_period_by_date(sess, arg.str, <<>>)
           period == IF arg.is_str THEN found.period ELSE arg.period
       IN /\ call' = [Call("select_period", None, arg, None, FALSE)
                        EXCEPT !.period = IF sess.current_product = None
                                          THEN NoPeriod ELSE period]
          /\ IF sess.current_product = None THEN Raise(ErrProductFirst)
             ELSE IF arg.is_str /\ found.raised # NoError THEN Raise(found.raised)
             ELSE Continue("POST_period")
    /\ NoExchange
    /\ UNCHANGED <<sess, listed, listOwner>>

\* select_format that checks the product alone
CallSelectFormat_ProductOnly(format) ==
    /\ UNCHANGED vvars
    /\ Begin(Call("select_format", None, NoArg, format, FALSE))
    /\ IF sess.current_product = None
       THEN Raise(ErrProductPeriodFirst)
       ELSE Continue("POST_format")
    /\ NoExchange
    /\ UNCHANGED <<sess, listed, listOwner>>

\* select_format(format), up to its request
CallSelectFormat(format) ==
    /\ UNCHANGED vvars
    /\ Begin(Call("select_format", None, NoArg, format, FALSE))
    /\ IF sess.current_product = None \/ sess.current_period = NoPeriod
       THEN Raise(ErrProductPeriodFirst)
       ELSE Continue("POST_format")
    /\ NoExchange
    /\ UNCHANGED <<sess, listed, listOwner>>

\* download(product, period, format, save_to_disk), up to its first request
CallDownload(product, arg, format, save) ==
    /\ UNCHANGED vvars
    /\ Begin(Call("download", product, arg, format, save))
    /\ Continue(IF sess.viewstate = None THEN "GET" ELSE "POST_product")
    /\ NoExchange
    /\ UNCHANGED <<sess, listed, listOwner>>

\* the GET of initialize and what follows it up to the next request
StepInitialize(resp) ==
    /\ UNCHANGED vvars
    /\ pc = "GET"
    /\ Exchange(GetData, resp)
    /\ LET r == initialize(sess, resp)
       IN /\ sess' = r.s
          /\ IF r.raised # NoError THEN Raise(r.raised)
             ELSE IF call.op = "initialize" THEN Return(ReturnsNone)
             ELSE Continue("POST_product")
    /\ Frame(call)
    /\ UNCHANGED <<listed, listOwner, written>>

\* the POST of select_product and what follows it up to the next request
StepSelectProduct(resp) ==
    /\ UNCHANGED vvars
    /\ pc = "POST_product"
    /\ Exchange(ProductData(sess, call.product), resp)
    /\ LET r == post(sess, resp)
           s1 == [r.s EXCEPT !.current_product = call.product]
           s2 == [s1 EXCEPT !.available_periods = resp.options]
           found == find_period_by_date(s2, call.arg.str, resp.options)
           period == IF call.arg.is_str THEN found.period ELSE call.arg.period
       IN /\ IF r.raised # NoError
             THEN sess' = r.s /\ Raise(r.raised) /\ UNCHANGED listed
             ELSE /\ listed' = [present |-> resp.select_present, options |-> resp.options]
                  /\ IF ~resp.select_present THEN sess' = s1 /\ Raise(ErrNoDates)
                     ELSE /\ sess' = s2
                          /\ IF call.op = "select_product"
                             THEN Return(Result("periods", resp.options,
                                                NoDownloadResult, <<>>))
                             ELSE IF call.arg.is_str /\ found.raised # NoError
                             THEN Raise(found.raised)
                             ELSE Continue("POST_period")
          /\ listOwner' = IF r.raised = NoError /\ resp.select_present
                          THEN call.product ELSE listOwner
          /\ Frame([call EXCEPT !.period = period])
    /\ UNCHANGED written

\* download that goes from the period straight to the trigger
StepSelectPeriod_SkipsFormat(resp) ==
    /\ UNCHANGED vvars
    /\ pc = "POST_period"
    /\ Exchange(PeriodData(sess, call.period), resp)
    /\ LET r == post(sess, resp)
           s1 == [r.s EXCEPT !.current_period = call.period]
       IN IF r.raised # NoError THEN sess' = r.s /\ Raise(r.raised)
          ELSE /\ sess' = s1
               /\ IF call.op = "select_period" THEN Return(ReturnsNone)
                  ELSE Continue("POST_trigger")
    /\ Frame(call)
    /\ UNCHANGED <<listed, listOwner, written>>

\* the POST of select_period and what follows it up to the next request
StepSelectPeriod(resp) ==
    /\ UNCHANGED vvars
    /\ pc = "POST_period"
    /\ Exchange(PeriodData(sess, call.period), resp)
    /\ LET r == post(sess, resp)
           s1 == [r.s EXCEPT !.current_period = call.period]
       IN IF r.raised # NoError THEN sess' = r.s /\ Raise(r.raised)
          ELSE /\ sess' = s1
               /\ IF call.op = "select_period" THEN Return(ReturnsNone)
                  ELSE IF s1.current_product = None \/ s1.current_period = NoPeriod
                  THEN Raise(ErrProductPeriodFirst)
                  ELSE Continue("POST_format")
    /\ Frame(call)
    /\ UNCHANGED <<listed, listOwner, written>>

\* the POST of select_format and what follows it up to the next request
StepSelectFormat(resp) ==
    /\ UNCHANGED vvars
    /\ pc = "POST_format"
    /\ Exchange(FormatData(sess, call.format), resp)
    /\ LET r == post(sess, resp)
       IN /\ sess' = r.s
          /\ IF r.raised # NoError THEN Raise(r.raised)
             ELSE IF call.op = "select_format" THEN Return(ReturnsNone)
             ELSE Continue("POST_trigger")
    /\ Frame(call)
    /\ UNCHANGED <<listed, listOwner, written>>

\* the response of the trigger POST is a file
is_file(resp) == is_octet(resp.content_type) \/ is_attachment(resp.disposition)

\* DownloadResult(success=False, ...) of download
FailedDownload(s, product) ==
    [NoDownloadResult EXCEPT !.error_message = "Download failed - unexpected content type",
                             !.call_updated = s.call_updated,
                             !.ubpr_updated = s.ubpr_updated,
                             !.last_updated = get_last_updated_for_product(s, product)]

\* the file name download gives the file
download_filename(resp, product, period, format) ==
    IF disposition_filename(resp.disposition) # <<>>
    THEN disposition_filename(resp.disposition)
    ELSE get_expected_filename(product, period, format)

\* DownloadResult(success=True, ...) of download
SavedDownload(s, resp, product, period, format) ==
    [success |-> TRUE, filename |-> download_filename(resp, product, period, format),
     size_bytes |-> Len(resp.body), content_type |-> resp.content_type,
     error_message |-> None, last_updated |-> get_last_updated_for_product(s, product),
     call_updated |-> s.call_updated, ubpr_updated |-> s.ubpr_updated]

\* a write that stops after the first byte
FileWrites_Partial(resp, product, period, format) ==
    <<[name |-> download_filename(resp, product, period, format),
       content |-> SubSeq(resp.body, 1, 1)]>>

\* what download writes: open(file_path, "wb") and f.write(response.content)
FileWrites(resp, product, period, format) ==
    <<[name |-> download_filename(resp, product, period, format), content |-> resp.body]>>

\* the trigger POST of download and the rest of download
StepDownload(resp) ==
    /\ UNCHANGED vvars
    /\ pc = "POST_trigger"
    /\ Exchange(TriggerData(sess, call.product, call.format), resp)
    /\ LET r == post(sess, resp)
       IN /\ sess' = r.s
          /\ IF r.raised # NoError THEN Raise(r.raised) /\ UNCHANGED written
             ELSE IF ~is_file(resp)
             THEN /\ Return(Result("DownloadResult", <<>>,
                                   FailedDownload(r.s, call.product), <<>>))
                  /\ UNCHANGED written
             ELSE IF call.save_to_disk
             THEN /\ written' = written \o
                        FileWrites(resp, call.product, call.period, call.format)
                  /\ Return(Result("DownloadResult", <<>>,
                               SavedDownload(r.s, resp, call.product, call.period,
                                             call.format), <<>>))
             ELSE /\ Return(Result("BytesIO", <<>>, NoDownloadResult, resp.body))
                  /\ UNCHANGED written
    /\ Frame(call)
    /\ UNCHANGED <<listed, listOwner>>

(***************************************************************************)
(* Two FFIECDownloader instances, each running one download, step by step. *)
(* An instance is its fields, the request download sends next, the call's  *)
(* arguments and locals, the requests it sent and the responses it got.    *)
(***************************************************************************)
Instance(s, at, c, sent, got, raised_) ==
    [sess |-> s, pc |-> at, call |-> c, sent |-> sent, got |-> got, raised |-> raised_]

\* FFIECDownloader(): the fields of a new instance
NewInstance == Instance(NewSession, "idle", NoCall, <<>>, <<>>, NoError)

NoInsts == <<>>

\* self of a method whose fields are those of the class
self_of_ClassFields(all, i) == [all[i] EXCEPT !.sess = all[1].sess]

\* self of a method running on instance i
self_of(all, i) == all[i]

\* download(product, period, format) on an instance, up to its first request
download_begin(self, product, arg, format) ==
    [self EXCEPT !.call = Call("download", product, arg, format, TRUE),
                 !.pc = IF self.sess.viewstate = None THEN "GET" ELSE "POST_product"]

\* the request download sends next
download_request(self) ==
    CASE self.pc = "GET" -> GetData
      [] self.pc = "POST_product" -> ProductData(self.sess, self.call.product)
      [] self.pc = "POST_period" -> PeriodData(self.sess, self.call.period)
      [] self.pc = "POST_format" -> FormatData(self.sess, self.call.format)
      [] self.pc = "POST_trigger" ->
            TriggerData(self.sess, self.call.product, self.call.format)

\* download from the response to a request up to the next request
download_step(self, resp) ==
    LET r == IF self.pc = "GET" THEN initialize(self.sess, resp)
             ELSE post(self.sess, resp)
        s1 == [r.s EXCEPT !.current_product = self.call.product]
        s2 == [s1 EXCEPT !.available_periods = resp.options]
        found == find_period_by_date(s2, self.call.arg.str, resp.options)
        period == IF self.call.arg.is_str THEN found.period ELSE self.call.arg.period
        heard == [self EXCEPT !.sent = Append(self.sent, download_request(self)),
                              !.got = Append(self.got, resp)]
        ends(s, e) == [heard EXCEPT !.sess = s, !.pc = "idle", !.raised = e]
        goes(s, at) == [heard EXCEPT !.sess = s, !.pc = at]
    IN IF r.raised # NoError THEN ends(r.s, r.raised)
       ELSE CASE self.pc = "GET" -> goes(r.s, "POST_product")
              [] self.pc = "POST_product" ->
                    IF ~resp.select_present THEN ends(s1, ErrNoDates)
                    ELSE IF self.call.arg.is_str /\ found.raised # NoError
                    THEN ends(s2, found.raised)
                    ELSE [goes(s2, "POST_period") EXCEPT !.call.period = period]
              [] self.pc = "POST_period" ->
                    goes([r.s EXCEPT !.current_period = self.call.period], "POST_format")
              [] self.pc = "POST_format" -> goes(r.s, "POST_trigger")
              [] self.pc = "POST_trigger" -> ends(r.s, NoError)

\* instance i receives the response to the request it sent
InstanceStep(i, resp) ==
    /\ i \in DOMAIN insts
    /\ insts[i].pc # "idle"
    /\ insts' = [insts EXCEPT ![i] = download_step(self_of(insts, i), resp)]
    /\ UNCHANGED <<dlvars, thumbprint_dir, skip_validation, vcall, fetched, vraised,
                   vresult, wcall, results, hashed, xbrl, lookup, conc, applied>>

(***************************************************************************)
(* The pages the validator fetches.  A page is what the regular            *)
(* expressions of capture_thumbprint read of its HTML: the two state       *)
(* markers, the <select name=.. id=..> elements with their options, the    *)
(* <input type=.. name=.. id=..> elements, the ids of the elements that are *)
(* neither (links) and the two postback patterns.                          *)
(***************************************************************************)
URL_BULK == "https://cdr.ffiec.gov/public/pws/downloadbulkdata.aspx"

URL_TAXONOMY == "https://cdr.ffiec.gov/public/DownloadTaxonomy.aspx"

\* the page categories of KNOWN_THUMBPRINTS
PageTypes == {"bulk_download", "taxonomy", "bhc_financial"}

KNOWN_URL(page_type) ==
    CASE page_type = "bulk_download" -> URL_BULK
      [] page_type = "taxonomy" -> URL_TAXONOMY
      [] page_type = "bhc_financial" ->
            "https://www.ffiec.gov/npw/FinancialReport/FinancialDataDownload"

Option(value, text) == [value |-> value, text |-> text]

Select(name, id, options) == [name |-> name, id |-> id, options |-> options]

Input(type, name, id) == [type |-> type, name |-> name, id |-> id]

\* the generator marker of a page: absent, present without a value the regex
\* finds, or present with a value
GenAbsent == "absent"

GenNoValue == "novalue"

ProductOrder == <<"CALL_SINGLE", "CALL_FOUR_PERIODS", "UBPR_RATIO_SINGLE",
                  "UBPR_RATIO_FOUR", "UBPR_RANK_FOUR", "UBPR_STATS_FOUR">>

ProductOptions ==
    [i \in 1..Len(ProductOrder) |->
        Option(Product_form_value(ProductOrder[i]), Product_display_name(ProductOrder[i]))]

\* s without its i-th element
Without(s, i) == SubSeq(s, 1, i - 1) \o SubSeq(s, i + 1, Len(s))

Select_ListBox1 == Select("ctl00$MainContentHolder$ListBox1", "ListBox1", ProductOptions)

Select_Dates ==
    Select("ctl00$MainContentHolder$DatesDropDownList", "DatesDropDownList",
           <<Option("146", Date_03_31_2024), Option("145", Date_12_31_2023)>>)

Input_EventTarget == Input("hidden", "__EVENTTARGET", "__EVENTTARGET")

Input_TSV == Input("radio", "ctl00$MainContentHolder$FormatType", "TSVRadioButton")

Input_XBRL == Input("radio", "ctl00$MainContentHolder$FormatType", "XBRLRadiobutton")

Input_Download ==
    Input("submit", "ctl00$MainContentHolder$TabStrip1$Download_0", "Download_0")

Input_Download1 ==
    Input("submit", "ctl00$MainContentHolder$TabStrip1$Download_1", "Download_1")

Input_Search == Input("text", "ctl00$MainContentHolder$SearchBox", "SearchBox")

Input_Dates ==
    Input("text", "ctl00$MainContentHolder$DatesDropDownList", "DatesDropDownList")

Page(status, vs, gen, selects, inputs, dopostback, webform) ==
    [status |-> status, viewstate |-> vs, generator |-> gen, selects |-> selects,
     inputs |-> inputs, links |-> <<>>, dopostback |-> dopostback, webform |-> webform]

\* the bulk download page as KNOWN_THUMBPRINTS describes it
KnownPage ==
    Page("ok", TRUE, "651D9554", <<Select_ListBox1, Select_Dates>>,
         <<Input_EventTarget, Input_TSV, Input_XBRL, Input_Download>>, TRUE, TRUE)

\* the bulk download pages of the modelled portal: the known page and its drifts
BulkPages ==
    {KnownPage,
     [KnownPage EXCEPT !.viewstate = FALSE],
     [KnownPage EXCEPT !.generator = GenAbsent],
     [KnownPage EXCEPT !.generator = GenNoValue],
     [KnownPage EXCEPT !.generator = "CA0B0334"],
     [KnownPage EXCEPT !.selects = <<Select_ListBox1>>],
     [KnownPage EXCEPT !.selects = <<Select_Dates>>],
     [KnownPage EXCEPT !.selects = <<Select_Dates, Select_ListBox1>>],
     [KnownPage EXCEPT !.selects[1].options = <<>>],
     [KnownPage EXCEPT !.selects[1].options = Without(ProductOptions, 6)],
     [KnownPage EXCEPT !.selects[1].options = Without(ProductOptions, 1)],
     [KnownPage EXCEPT !.selects[1].options[1].text = <<"Call", "Reports">>],
     [KnownPage EXCEPT !.selects[2].options = <<Option("146", Date_03_31_2024)>>],
     [KnownPage EXCEPT !.selects = <<Select_ListBox1>>,
                       !.inputs = <<Input_EventTarget, Input_TSV, Input_XBRL,
                                    Input_Download, Input_Dates>>],
     [KnownPage EXCEPT !.inputs = <<Input_EventTarget, Input_TSV, Input_XBRL,
                                    Input_Download, Input_Search>>],
     [KnownPage EXCEPT !.selects = <<Select_ListBox1>>,
                       !.inputs = <<Input_EventTarget, Input_TSV, Input_XBRL,
                                    Input_Download, Input_Search, Input_Download1>>],
     [KnownPage EXCEPT !.inputs = <<Input_EventTarget, Input_TSV, Input_Download>>],
     [KnownPage EXCEPT !.inputs = <<Input_EventTarget, Input_TSV, Input_XBRL>>],
     [KnownPage EXCEPT !.inputs = <<Input_EventTarget, Input_TSV, Input_XBRL,
                                    Input_Download1>>],
     [KnownPage EXCEPT !.links = <<"Download_1">>],
     [KnownPage EXCEPT !.inputs = <<Input_EventTarget, Input_TSV, Input_XBRL>>,
                       !.links = <<"Download_0">>],
     [KnownPage EXCEPT !.dopostback = FALSE],
     [KnownPage EXCEPT !.webform = FALSE]}

Select_Datasets == Select("DatasetsDropDownList", "DatasetsDropDownList", <<>>)

Select_ReportingCycle ==
    Select("ReportingCycleDropDownList", "ReportingCycleDropDownList", <<>>)

KnownTaxonomyPage ==
    Page("ok", TRUE, "0C9A2D1B", <<Select_Datasets, Select_ReportingCycle>>,
         <<Input_EventTarget>>, TRUE, FALSE)

TaxonomyPages ==
    {KnownTaxonomyPage, [KnownTaxonomyPage EXCEPT !.selects = <<Select_Datasets>>]}

\* session.get raised, or raise_for_status raised
FailedPages ==
    {Page(st, FALSE, GenAbsent, <<>>, <<>>, FALSE, FALSE) : st \in {"conn_error", "http_error"}}

\* the financial data download page: no WebForms markers
KnownBhcPage ==
    Page("ok", FALSE, GenAbsent,
         <<Select("ReportingCycleDropdown", "ReportingCycleDropdown", <<>>),
           Select("DataSeriesDropdown", "DataSeriesDropdown", <<>>)>>,
         <<>>, FALSE, FALSE)

PageResponses(page_type) ==
    FailedPages \cup
    (CASE page_type = "bulk_download" -> BulkPages
       [] page_type = "taxonomy" -> TaxonomyPages
       [] page_type = "bhc_financial" -> {KnownBhcPage})

(***************************************************************************)
(* FormElement and PageThumbprint.  An Optional list is <<>> for None and  *)
(* <<x>> for the list x.                                                   *)
(***************************************************************************)
NoList == <<>>

Some(x) == <<x>>

\* "o or []" for an Optional list
OrEmpty(o) == IF o = NoList THEN <<>> ELSE o[1]

\* truth value of an Optional list
truthy(o) == o # NoList /\ o[1] # <<>>

\* set(list)
set(s) == {s[i] : i \in DOMAIN s}

\* list(set): the elements once each.  The order Python gives them is not fixed by
\* the language; the model keeps one order, and every reader of such a list goes
\* through sorted() or set()
list(S) == CHOOSE s \in [1..Cardinality(S) -> S] : set(s) = S

FormElement(name, id, type, options) ==
    [name |-> name, id |-> id, type |-> type, options |-> options]

\* the elements of a sequence with the number of times each occurs: what sorted()
\* keeps of a list
BagOf(s) ==
    [x \in {s[i] : i \in DOMAIN s} |-> Cardinality({i \in DOMAIN s : s[i] = x})]

\* a text as the pieces a "|" in it separates, the "|" kept: over the texts of the
\* model, of which two hold a "|"
pieces(s) ==
    CASE s = "a|b" -> <<"a", "|", "b">>
      [] s = "b|c" -> <<"b", "|", "c">>
      [] OTHER -> <<s>>

\* FormElement.to_hash: the digest of f"{name}|{id}|{type}|{options}" stands for
\* that text
to_hash(e) ==
    pieces(e.name) \o <<"|">> \o pieces(e.id) \o <<"|">> \o pieces(e.type)
    \o <<"|", e.options>>

\* calculate_hash that joins the lists as they are, unsorted
calculate_hash_Unsorted(t) ==
    <<t.url, t.viewstate_present, t.viewstate_generator_present,
      IF t.viewstate_generator_value = None THEN "" ELSE t.viewstate_generator_value,
      [i \in DOMAIN OrEmpty(t.form_elements) |-> to_hash(OrEmpty(t.form_elements)[i])]>>
    \o (IF truthy(t.products) THEN <<t.products[1]>> ELSE <<>>)
    \o (IF truthy(t.download_button_ids) THEN <<t.download_button_ids[1]>> ELSE <<>>)
    \o (IF truthy(t.radio_button_ids) THEN <<t.radio_button_ids[1]>> ELSE <<>>)

\* PageThumbprint.calculate_hash: the digest of the joined components stands for the
\* components
calculate_hash(t) ==
    <<t.url, t.viewstate_present, t.viewstate_generator_present,
      IF t.viewstate_generator_value = None THEN "" ELSE t.viewstate_generator_value,
      BagOf([i \in DOMAIN OrEmpty(t.form_elements) |->
                to_hash(OrEmpty(t.form_elements)[i])])>>
    \o (IF truthy(t.products) THEN <<BagOf(t.products[1])>> ELSE <<>>)
    \o (IF truthy(t.download_button_ids)
        THEN <<BagOf(t.download_button_ids[1])>> ELSE <<>>)
    \o (IF truthy(t.radio_button_ids) THEN <<BagOf(t.radio_button_ids[1])>> ELSE <<>>)

NoHash == <<>>

\* PageThumbprint(url=.., viewstate_present=.., viewstate_generator_present=..) with
\* the defaults of the other fields, and __post_init__
PageThumbprint(url, vs_present, gen_present) ==
    LET t == [url |-> url, viewstate_present |-> vs_present,
              viewstate_generator_present |-> gen_present,
              viewstate_generator_value |-> None, form_elements |-> NoList,
              products |-> NoList, download_button_ids |-> NoList,
              radio_button_ids |-> NoList, uses_dopostback |-> FALSE,
              uses_webform_postback |-> FALSE, structural_hash |-> NoHash]
    IN [t EXCEPT !.structural_hash = calculate_hash(t)]

\* no baseline file
NoThumbprint == [PageThumbprint(None, FALSE, FALSE) EXCEPT !.structural_hash = NoHash]

\* from_dict that computes the hash of the loaded fields anew
from_dict_Rehash(data) ==
    [data EXCEPT !.structural_hash = calculate_hash(data)]

\* PageThumbprint.from_dict: cls(**data), whose __post_init__ keeps a hash that is set
from_dict(data) ==
    IF data.structural_hash = NoHash
    THEN [data EXCEPT !.structural_hash = calculate_hash(data)]
    ELSE data

\* name.startswith("__"), over the names of the modelled pages
is_internal_name(name) == name \in {"__EVENTTARGET", "__VIEWSTATE", "__VIEWSTATEGENERATOR"}

\* an id the pattern id="(Download[^"]*)" matches, over the ids of the modelled pages
is_download_id(id) == id \in {"Download_0", "Download_1"}

\* options[:5] of the values of a select
first_values(options) ==
    [i \in 1..(IF Len(options) < 5 THEN Len(options) ELSE 5) |-> options[i].value]

\* _extract_form_elements
extract_form_elements(page) ==
    LET inputs == SelectSeq(page.inputs, LAMBDA i : ~is_internal_name(i.name))
    IN [k \in DOMAIN page.selects |->
           FormElement(page.selects[k].name, page.selects[k].id, "select",
                       Some(first_values(page.selects[k].options)))]
       \o [k \in DOMAIN inputs |->
              FormElement(inputs[k].name, inputs[k].id, inputs[k].type, NoList)]

\* _extract_products: the options of the first element with id="ListBox1"
extract_products(page) ==
    LET boxes == SelectSeq(page.selects, LAMBDA s : s.id = "ListBox1")
    IN IF boxes = <<>> THEN <<>>
       ELSE [k \in DOMAIN boxes[1].options |->
                [value |-> boxes[1].options[k].value, text |-> boxes[1].options[k].text]]

\* _extract_download_buttons
extract_download_buttons(page) ==
    list({page.inputs[k].id :
             k \in {j \in DOMAIN page.inputs : is_download_id(page.inputs[j].id)}}
         \cup {page.selects[k].id :
                  k \in {j \in DOMAIN page.selects : is_download_id(page.selects[j].id)}}
         \cup {page.links[k] :
                  k \in {j \in DOMAIN page.links : is_download_id(page.links[j])}})

\* _extract_radio_buttons
extract_radio_buttons(page) ==
    list({page.inputs[k].id :
             k \in {j \in DOMAIN page.inputs : page.inputs[j].type = "radio"}})

\* capture_thumbprint, from the fetched page on
capture_thumbprint(page, url, page_type) ==
    LET thumbprint == PageThumbprint(url, page.viewstate, page.generator # GenAbsent)
        bulk == page_type = "bulk_download"
    IN [thumbprint EXCEPT
           !.viewstate_generator_value =
               IF page.generator \in {GenAbsent, GenNoValue} THEN None ELSE page.generator,
           !.form_elements = Some(extract_form_elements(page)),
           !.products = IF bulk THEN Some(extract_products(page)) ELSE NoList,
           !.download_button_ids =
               IF bulk THEN Some(extract_download_buttons(page)) ELSE NoList,
           !.radio_button_ids = IF bulk THEN Some(extract_radio_buttons(page)) ELSE NoList,
           !.uses_dopostback = page.dopostback,
           !.uses_webform_postback = page.webform]

\* {(e.name, e.id, e.type) for e in (t.form_elements or [])}
element_keys(t) ==
    {<<OrEmpty(t.form_elements)[k].name, OrEmpty(t.form_elements)[k].id,
       OrEmpty(t.form_elements)[k].type>> : k \in DOMAIN OrEmpty(t.form_elements)}

\* {p["value"] for p in t.products}
product_values(t) == {t.products[1][k].value : k \in DOMAIN t.products[1]}

\* missing elements found by name alone
missing_elements_ByName(stored, current) ==
    {x \in element_keys(stored) : \A y \in element_keys(current) : y[1] # x[1]}

\* new elements taken the wrong way round
new_elements_Swapped(stored, current) == element_keys(stored) \ element_keys(current)

\* stored_elements - current_elements
missing_elements(stored, current) == element_keys(stored) \ element_keys(current)

\* current_elements - stored_elements
new_elements(stored, current) == element_keys(current) \ element_keys(stored)

When(cond, msg) == IF cond THEN <<msg>> ELSE <<>>

\* a warning text and the form elements it names
Warning(text, about) == [text |-> text, about |-> about]

\* _compare_thumbprints
compare_thumbprints(stored, current) ==
    [critical_changes |->
        When(stored.viewstate_present # current.viewstate_present,
             "ViewState presence changed")
        \o When(stored.viewstate_generator_value # current.viewstate_generator_value,
                "ViewStateGenerator changed")
        \o When(missing_elements(stored, current) # {}, "Missing form elements")
        \o When(/\ truthy(stored.products) /\ truthy(current.products)
                /\ product_values(stored) # product_values(current),
                "Product options changed")
        \o When(/\ truthy(stored.download_button_ids)
                /\ truthy(current.download_button_ids)
                /\ set(stored.download_button_ids[1])
                      # set(current.download_button_ids[1]),
                "Download button IDs changed"),
     warnings |->
        When(new_elements(stored, current) # {},
             Warning("New form elements found", new_elements(stored, current)))
        \o When(stored.uses_dopostback # current.uses_dopostback,
                Warning("__doPostBack usage changed", {}))]

(***************************************************************************)
(* ThumbprintValidator.validate and the capture command.                   *)
(***************************************************************************)
ErrWebpageChange == Error("WebpageChangeException", "Critical changes detected")

ErrCannotProceed == Error("WebpageChangeException", "Cannot proceed with download")

Validation(returned, valid, warnings, current_hash, stored_hash, critical) ==
    [returned |-> returned, valid |-> valid, warnings |-> warnings,
     current_hash |-> current_hash, stored_hash |-> stored_hash,
     critical_changes |-> critical]

\* no value returned; critical_changes is the text of the exception validate raised
NoValidation == Validation(FALSE, FALSE, <<>>, NoHash, NoHash, <<>>)

NoBaselines == [page_type \in PageTypes |-> NoThumbprint]

\* thumbprint_file.exists()
exists(dir, page_type) == dir[page_type] # NoThumbprint

\* validate whose first run saves nothing
validate_FirstRunUnsaved(dir, page, url, page_type) ==
    IF page.status = "conn_error"
    THEN [dir |-> dir, raised |-> ErrConnection, result |-> NoValidation]
    ELSE IF page.status = "http_error"
    THEN [dir |-> dir, raised |-> ErrHTTP, result |-> NoValidation]
    ELSE LET current == capture_thumbprint(page, url, page_type)
         IN IF exists(dir, page_type)
            THEN LET stored == from_dict(dir[page_type])
                     differences == compare_thumbprints(stored, current)
                 IN IF differences.critical_changes # <<>>
                    THEN [dir |-> dir, raised |-> ErrWebpageChange,
                          result |-> [NoValidation EXCEPT !.critical_changes =
                                                      differences.critical_changes]]
                    ELSE [dir |-> dir, raised |-> NoError,
                          result |-> Validation(TRUE, differences.critical_changes = <<>>,
                                                differences.warnings,
                                                current.structural_hash,
                                                stored.structural_hash, <<>>)]
            ELSE [dir |-> dir, raised |-> NoError,
                  result |-> Validation(TRUE, TRUE,
                                        <<Warning("First run - thumbprint saved", {})>>,
                                        current.structural_hash, NoHash, <<>>)]

\* validate that replaces the baseline by a capture with critical changes
validate_SavesOnChange(dir, page, url, page_type) ==
    IF page.status = "conn_error"
    THEN [dir |-> dir, raised |-> ErrConnection, result |-> NoValidation]
    ELSE IF page.status = "http_error"
    THEN [dir |-> dir, raised |-> ErrHTTP, result |-> NoValidation]
    ELSE LET current == capture_thumbprint(page, url, page_type)
         IN IF exists(dir, page_type)
            THEN LET stored == from_dict(dir[page_type])
                     differences == compare_thumbprints(stored, current)
                 IN IF differences.critical_changes # <<>>
                    THEN [dir |-> [dir EXCEPT ![page_type] = current],
                          raised |-> ErrWebpageChange,
                          result |-> [NoValidation EXCEPT !.critical_changes =
                                                      differences.critical_changes]]
                    ELSE [dir |-> dir, raised |-> NoError,
                          result |-> Validation(TRUE, differences.critical_changes = <<>>,
                                                differences.warnings,
                                                current.structural_hash,
                                                stored.structural_hash, <<>>)]
            ELSE [dir |-> [dir EXCEPT ![page_type] = current], raised |-> NoError,
                  result |-> Validation(TRUE, TRUE,
                                        <<Warning("First run - thumbprint saved", {})>>,
                                        current.structural_hash, NoHash, <<>>)]

\* validate that returns the critical changes in a result that is not valid
validate_ReturnsInvalid(dir, page, url, page_type) ==
    IF page.status = "conn_error"
    THEN [dir |-> dir, raised |-> ErrConnection, result |-> NoValidation]
    ELSE IF page.status = "http_error"
    THEN [dir |-> dir, raised |-> ErrHTTP, result |-> NoValidation]
    ELSE LET current == capture_thumbprint(page, url, page_type)
         IN IF exists(dir, page_type)
            THEN LET stored == from_dict(dir[page_type])
                     differences == compare_thumbprints(stored, current)
                 IN [dir |-> dir, raised |-> NoError,
                     result |-> Validation(TRUE, differences.critical_changes = <<>>,
                                           differences.warnings,
                                           current.structural_hash,
                                           stored.structural_hash,
                                           differences.critical_changes)]
            ELSE [dir |-> [dir EXCEPT ![page_type] = current], raised |-> NoError,
                  result |-> Validation(TRUE, TRUE,
                                        <<Warning("First run - thumbprint saved", {})>>,
                                        current.structural_hash, NoHash, <<>>)]

\* validate(url, page_type), from the fetched page on: the directory after it, the
\* exception it raises and the value it returns
validate(dir, page, url, page_type) ==
    IF page.status = "conn_error"
    THEN [dir |-> dir, raised |-> ErrConnection, result |-> NoValidation]
    ELSE IF page.status = "http_error"
    THEN [dir |-> dir, raised |-> ErrHTTP, result |-> NoValidation]
    ELSE LET current == capture_thumbprint(page, url, page_type)
         IN IF exists(dir, page_type)
            THEN LET stored == from_dict(dir[page_type])
                     differences == compare_thumbprints(stored, current)
                 IN IF differences.critical_changes # <<>>
                    THEN [dir |-> dir, raised |-> ErrWebpageChange,
                          result |-> [NoValidation EXCEPT !.critical_changes =
                                                      differences.critical_changes]]
                    ELSE [dir |-> dir, raised |-> NoError,
                          result |-> Validation(TRUE, differences.critical_changes = <<>>,
                                                differences.warnings,
                                                current.structural_hash,
                                                stored.structural_hash, <<>>)]
            ELSE [dir |-> [dir EXCEPT ![page_type] = current], raised |-> NoError,
                  result |-> Validation(TRUE, TRUE,
                                        <<Warning("First run - thumbprint saved", {})>>,
                                        current.structural_hash, NoHash, <<>>)]

VCall(op, page_type, had_baseline) ==
    [op |-> op, page_type |-> page_type, had_baseline |-> had_baseline]

NoVCall == VCall(None, None, FALSE)

NoPage == Page(None, FALSE, GenAbsent, <<>>, <<>>, FALSE, FALSE)

\* validator.validate(url, page_type)
Validate(page_type, page) ==
    /\ pc = "idle"
    /\ LET r == validate(thumbprint_dir, page, KNOWN_URL(page_type), page_type)
       IN /\ thumbprint_dir' = r.dir
          /\ vraised' = r.raised
          /\ vresult' = r.result
    /\ vcall' = VCall("validate", page_type, exists(thumbprint_dir, page_type))
    /\ fetched' = page
    /\ UNCHANGED <<dlvars, skip_validation, wcall, results, hashed, xbrl,
                   lookup, conc, insts, applied>>

\* one page of the "capture" command: capture_thumbprint and save, an exception
\* printed
CaptureCommand(page_type, page) ==
    /\ pc = "idle"
    /\ thumbprint_dir' =
          IF page.status = "ok"
          THEN [thumbprint_dir EXCEPT ![page_type] =
                   capture_thumbprint(page, KNOWN_URL(page_type), page_type)]
          ELSE thumbprint_dir
    /\ vraised' = NoError
    /\ vresult' = NoValidation
    /\ vcall' = VCall("capture", page_type, exists(thumbprint_dir, page_type))
    /\ fetched' = page
    /\ UNCHANGED <<dlvars, skip_validation, wcall, results, hashed, xbrl,
                   lookup, conc, insts, applied>>

(***************************************************************************)
(* Two validate calls of one validator directory running at once.  A call  *)
(* is at "capture", "exists", "load" or "save", the step it does next, or  *)
(* "done".                                                                 *)
(***************************************************************************)
\* current.save(filepath) writing the file of every category
PageThumbprint_save_OneFile(dir, page_type, current) == [pt \in PageTypes |-> current]

\* current.save(filepath) that leaves a file that is there as it is
PageThumbprint_save_Exclusive(dir, page_type, current) ==
    IF dir[page_type] # NoThumbprint THEN dir ELSE [dir EXCEPT ![page_type] = current]

\* current.save(thumbprint_file): the file of the category is written
PageThumbprint_save(dir, page_type, current) == [dir EXCEPT ![page_type] = current]

\* a running validate(url, page_type): its locals, and how it ended
Running(page_type, page, at, current, raised_, result_) ==
    [page_type |-> page_type, page |-> page, at |-> at, current |-> current,
     raised |-> raised_, result |-> result_]

Called(page_type) ==
    Running(page_type, NoPage, "capture", NoThumbprint, NoError, NoValidation)

\* the two calls, the directory they started on, and the calls in the order of
\* their steps
Conc(procs, dir0, order) == [procs |-> procs, dir0 |-> dir0, order |-> order]

NoConc == Conc(<<>>, NoBaselines, <<>>)

Stepped(p, proc) ==
    [conc EXCEPT !.procs[p] = proc, !.order = Append(conc.order, p)]

\* current = self.capture_thumbprint(url, page_type), the request answered by page
ConcCapture(p, page) ==
    /\ p \in DOMAIN conc.procs
    /\ conc.procs[p].at = "capture"
    /\ LET proc == conc.procs[p]
           url == KNOWN_URL(proc.page_type)
       IN conc' = Stepped(p,
              IF page.status = "conn_error"
              THEN [proc EXCEPT !.page = page, !.at = "done", !.raised = ErrConnection]
              ELSE IF page.status = "http_error"
              THEN [proc EXCEPT !.page = page, !.at = "done", !.raised = ErrHTTP]
              ELSE [proc EXCEPT !.page = page, !.at = "exists",
                                !.current = capture_thumbprint(page, url, proc.page_type)])
    /\ UNCHANGED <<dlvars, thumbprint_dir, skip_validation, vcall, fetched, vraised,
                   vresult, wcall, results, hashed, xbrl, lookup,
                   insts, applied>>

\* if thumbprint_file.exists():
ConcExists(p) ==
    /\ p \in DOMAIN conc.procs
    /\ conc.procs[p].at = "exists"
    /\ conc' = Stepped(p,
          [conc.procs[p] EXCEPT !.at =
              IF exists(thumbprint_dir, conc.procs[p].page_type) THEN "load" ELSE "save"])
    /\ UNCHANGED <<dlvars, thumbprint_dir, skip_validation, vcall, fetched, vraised,
                   vresult, wcall, results, hashed, xbrl, lookup,
                   insts, applied>>

\* stored = PageThumbprint.load(thumbprint_file), and the comparison to its end
ConcLoad(p) ==
    /\ p \in DOMAIN conc.procs
    /\ conc.procs[p].at = "load"
    /\ LET proc == conc.procs[p]
           stored == from_dict(thumbprint_dir[proc.page_type])
           differences == compare_thumbprints(stored, proc.current)
       IN conc' = Stepped(p,
              IF differences.critical_changes # <<>>
              THEN [proc EXCEPT !.at = "done", !.raised = ErrWebpageChange,
                                !.result = [NoValidation EXCEPT !.critical_changes =
                                                           differences.critical_changes]]
              ELSE [proc EXCEPT !.at = "done",
                                !.result = Validation(TRUE,
                                                      differences.critical_changes = <<>>,
                                                      differences.warnings,
                                                      proc.current.structural_hash,
                                                      stored.structural_hash, <<>>)])
    /\ UNCHANGED <<dlvars, thumbprint_dir, skip_validation, vcall, fetched, vraised,
                   vresult, wcall, results, hashed, xbrl, lookup,
                   insts, applied>>

\* current.save(thumbprint_file) and the value of the first run
ConcSave(p) ==
    /\ p \in DOMAIN conc.procs
    /\ conc.procs[p].at = "save"
    /\ LET proc == conc.procs[p]
       IN /\ thumbprint_dir' = PageThumbprint_save(thumbprint_dir, proc.page_type, proc.current)
          /\ conc' = Stepped(p,
                 [proc EXCEPT !.at = "done",
                              !.result = Validation(TRUE, TRUE,
                                             <<Warning("First run - thumbprint saved", {})>>,
                                             proc.current.structural_hash, NoHash, <<>>)])
    /\ UNCHANGED <<dlvars, skip_validation, vcall, fetched, vraised, vresult, wcall,
                   results, hashed, xbrl, lookup,
                   insts, applied>>

\* the categories in the order KNOWN_THUMBPRINTS.items() yields them
CategoryOrder == <<"bulk_download", "taxonomy", "bhc_financial">>

\* results = {}
NoResults == [page_type \in {} |-> NoValidation]

\* str(e): the message of the exception, with the changes a WebpageChangeException
\* lists
str_of(e, critical_changes) == [msg |-> e.msg, changes |-> critical_changes]

\* the category validate_all validates next
next_category(res) == CategoryOrder[Cardinality(DOMAIN res) + 1]

\* validate_all, one turn of its loop without the except clause: an exception of
\* validate ends the call
validate_all_Uncaught(res, r) ==
    IF r.raised # NoError
    THEN [results |-> res, raised |-> r.raised, done |-> TRUE]
    ELSE [results |-> res @@ (next_category(res) :> r.result), raised |-> NoError,
          done |-> Cardinality(DOMAIN res) + 1 = Len(CategoryOrder)]

\* validate_all, one turn of its loop: the outcome r of validate(config["url"],
\* page_type) becomes results[page_type]
validate_all(res, r) ==
    [results |-> res @@ (next_category(res) :>
                            IF r.raised # NoError
                            THEN [valid |-> FALSE,
                                  error |-> str_of(r.raised, r.result.critical_changes)]
                            ELSE r.result),
     raised |-> NoError,
     done |-> Cardinality(DOMAIN res) + 1 = Len(CategoryOrder)]

\* validator.validate_all()
CallValidateAll ==
    /\ pc = "idle"
    /\ pc' = "validate_all"
    /\ results' = NoResults
    /\ vcall' = VCall("validate_all", None, FALSE)
    /\ fetched' = NoPage
    /\ vraised' = NoError
    /\ vresult' = NoValidation
    /\ UNCHANGED <<sess, call, trace, lastReq, lastAns, lastResp, lastBearing, listed,
                   listOwner, raised, result, written, thumbprint_dir,
                   skip_validation, wcall, hashed, xbrl,
                   lookup, conc, insts, applied>>

\* validate_all: the page of the next category arrives
StepValidateAll(page_type, page) ==
    /\ pc = "validate_all"
    /\ page_type = next_category(results)
    /\ LET r == validate(thumbprint_dir, page, KNOWN_URL(page_type), page_type)
           a == validate_all(results, r)
       IN /\ thumbprint_dir' = r.dir
          /\ vresult' = r.result
          /\ results' = a.results
          /\ vraised' = a.raised
          /\ pc' = IF a.done THEN "idle" ELSE "validate_all"
    /\ vcall' = VCall("validate_all", page_type, exists(thumbprint_dir, page_type))
    /\ fetched' = page
    /\ UNCHANGED <<sess, call, trace, lastReq, lastAns, lastResp, lastBearing, listed,
                   listOwner, raised, result, written, skip_validation, wcall,
                   hashed, xbrl,
                   lookup, conc, insts, applied>>

(***************************************************************************)
(* calculate_hash on fingerprints built field by field.                    *)
(***************************************************************************)
Hashed(before, after, op, field) ==
    [before |-> before, after |-> after, op |-> op, field |-> field]

NoHashed == Hashed(NoThumbprint, NoThumbprint, None, None)

\* form elements; the texts of the second and the third join to the same text
Element_ListBox1 == FormElement("ListBox1", "ListBox1", "select", Some(<<"1", "2">>))

Element_ab_c == FormElement("a|b", "c", "text", NoList)

Element_a_bc == FormElement("a", "b|c", "text", NoList)

\* the lists a fingerprint is built with
ElementLists ==
    {NoList, Some(<<>>), Some(<<Element_ListBox1, Element_ab_c>>),
     Some(<<Element_ab_c, Element_a_bc, Element_ListBox1>>),
     Some(<<Element_ListBox1, Element_ListBox1, Element_a_bc>>)}

ProductLists ==
    {NoList, Some(<<>>),
     Some(<<[value |-> "1", text |-> "a"], [value |-> "2", text |-> "b"],
            [value |-> "1", text |-> "b"]>>)}

IdLists == {NoList, Some(<<"Download_0", "Download_1">>), Some(<<"b", "a", "b">>)}

\* PageThumbprint(url=.., .., form_elements=.., products=.., download_button_ids=..,
\* radio_button_ids=..)
Fingerprints ==
    {[PageThumbprint(URL_BULK, TRUE, TRUE) EXCEPT
         !.viewstate_generator_value = "651D9554", !.form_elements = fe,
         !.products = pr, !.download_button_ids = db, !.radio_button_ids = rb] :
        fe \in ElementLists, pr \in ProductLists, db \in IdLists, rb \in IdLists}

ListFields == {"form_elements", "products", "download_button_ids", "radio_button_ids"}

\* the values a field of a form element is changed to
ElementTexts == {"ListBox1", "a", "a|b", "b", "b|c", "c", "select", "text"}

\* the orders of a list
reorderings(s) == {[i \in DOMAIN s |-> s[p[i]]] : p \in Permutations(DOMAIN s)}

\* a second fingerprint with one list of the first in the order s
Reorder(field, s) ==
    /\ truthy(hashed.before[field])
    /\ s \in reorderings(hashed.before[field][1])
    /\ hashed' = Hashed(hashed.before, [hashed.before EXCEPT ![field] = Some(s)],
                        "reorder", field)
    /\ UNCHANGED <<dlvars, thumbprint_dir, skip_validation, vcall, fetched, vraised,
                   vresult, wcall, results, xbrl,
                   lookup, conc, insts, applied>>

\* a second fingerprint with the name, the id or the type of one form element of the
\* first changed
ChangeElement(i, field, value) ==
    /\ i \in DOMAIN OrEmpty(hashed.before.form_elements)
    /\ hashed.before.form_elements[1][i][field] # value
    /\ hashed' = Hashed(hashed.before,
                        [hashed.before EXCEPT !.form_elements[1][i][field] = value],
                        "change", field)
    /\ UNCHANGED <<dlvars, thumbprint_dir, skip_validation, vcall, fetched, vraised,
                   vresult, wcall, results, xbrl,
                   lookup, conc, insts, applied>>

\* a second fingerprint with the button ids and the radio ids of the first taken
\* for each other
ExchangeIds ==
    /\ hashed.before.download_button_ids # hashed.before.radio_button_ids
    /\ hashed' = Hashed(hashed.before,
                        [hashed.before EXCEPT
                            !.download_button_ids = hashed.before.radio_button_ids,
                            !.radio_button_ids = hashed.before.download_button_ids],
                        "exchange", "download_button_ids")
    /\ UNCHANGED <<dlvars, thumbprint_dir, skip_validation, vcall, fetched, vraised,
                   vresult, wcall, results, xbrl,
                   lookup, conc, insts, applied>>

(***************************************************************************)
(* xbrl/process_file.py.  Texts are sequences of characters; a float is    *)
(* the fraction it stands for, in lowest terms.                            *)
(***************************************************************************)
\* item.get(..) of a key the item lacks
NoText == <<None>>

Text_true == <<"t", "r", "u", "e">>

Text_false == <<"f", "a", "l", "s", "e">>

\* str(n) of an integer
DigitsOf(n) ==
    LET F[k \in 0..n] == IF k < 10 THEN <<Digits[k + 1]>>
                         ELSE F[k \div 10] \o <<Digits[(k % 10) + 1]>>
    IN F[n]

IntText(n) == IF n < 0 THEN <<"-">> \o DigitsOf(-n) ELSE DigitsOf(n)

\* a text without its sign, and the sign
unsigned(text) == IF text # <<>> /\ text[1] \in {"-", "+"} THEN Tail(text) ELSE text

sign_of(text) == IF text # <<>> /\ text[1] = "-" THEN -1 ELSE 1

\* int(text): an optional sign and digits; raised stands for ValueError / TypeError
int_of(text) ==
    IF text # NoText /\ isdigit(unsigned(text))
    THEN [raised |-> FALSE, value |-> sign_of(text) * NumOf(unsigned(text))]
    ELSE [raised |-> TRUE, value |-> 0]

GCD(a, b) ==
    LET m == IF a >= b THEN a ELSE b
        F[x \in 0..m, y \in 0..m] == IF y = 0 THEN x ELSE F[y, x % y]
    IN F[a, b]

Abs(n) == IF n < 0 THEN -n ELSE n

\* the float num / den
Fraction(num, den) ==
    LET g == GCD(Abs(num), den)
    IN [num |-> num \div g, den |-> den \div g]

Pow10(k) == LET F[i \in 0..k] == IF i = 0 THEN 1 ELSE 10 * F[i - 1] IN F[k]

\* float(text): an optional sign, digits, and an optional point followed by digits
float_of(text) ==
    LET body == unsigned(text)
        points == {i \in 1..Len(body) : body[i] = "."}
        whole == IF points = {} THEN body
                 ELSE SubSeq(body, 1, (CHOOSE i \in points : TRUE) - 1)
        part == IF points = {} THEN <<>>
                ELSE SubSeq(body, (CHOOSE i \in points : TRUE) + 1, Len(body))
    IN IF /\ text # NoText
          /\ Cardinality(points) <= 1
          /\ isdigit(whole \o part)
          /\ \A i \in 1..Len(body) : i \in points \/ IsDigit(body[i])
       THEN [raised |-> FALSE,
             value |-> Fraction(sign_of(text) * NumOf(whole \o part), Pow10(Len(part)))]
       ELSE [raised |-> TRUE, value |-> Fraction(0, 1)]

\* int(x) of a float, rounding down
int_of_float_Floor(x) == x.num \div x.den

\* int(x) of a float: the fraction truncated toward zero
int_of_float(x) ==
    IF x.num >= 0 THEN x.num \div x.den ELSE -((-x.num) \div x.den)

\* an item of the parsed document: '@contextRef', '@unitRef' and '#text'.  A
\* context is its parts between "_"; NoContext is a missing '@contextRef'
Item(context, unit, text) == [context |-> context, unit |-> unit, text |-> text]

NoContext == <<None>>

\* the parts of a context that re_date finds a date in
DateParts == {"2024-03-31", "2023-12-31"}

\* name.replace("cc:", "").replace("uc:", ""), a name being its prefixes and its
\* local part
mdrm_of(name) == SelectSeq(name, LAMBDA part : part \notin {"cc:", "uc:"})

\* 'cc:' in name
has_part(name, prefix) == \E i \in DOMAIN name : name[i] = prefix

\* the row of an item with the text looked at before the unit
xbrl_row_PayloadFirst(name, item) ==
    LET dated == {i \in DOMAIN item.context : item.context[i] \in DateParts}
        as_int == int_of(item.text)
        as_float == float_of(item.text)
        row(value, data_type) ==
            [raised |-> FALSE, mdrm |-> mdrm_of(name), rssd |-> item.context[2],
             quarter |-> item.context[CHOOSE i \in dated : \A j \in dated : i <= j],
             value |-> value, data_type |-> data_type]
        failed == [raised |-> TRUE]
    IN IF item.context = NoContext \/ Len(item.context) < 2 \/ dated = {} THEN failed
       ELSE IF item.text = Text_true THEN row([bool |-> TRUE], "bool")
       ELSE IF item.text = Text_false THEN row([bool |-> FALSE], "bool")
       ELSE IF item.unit = "USD"
       THEN (IF as_int.raised THEN failed
             ELSE row([float |-> Fraction(as_int.value, 1000)], "int"))
       ELSE IF item.unit \in {"PURE", "NON-MONETARY"}
       THEN (IF as_float.raised THEN failed
             ELSE row([float |-> as_float.value], "float"))
       ELSE row([str |-> item.text], "str")

\* one turn of the loop of process_xbrl_item: the row of an item, or an exception
xbrl_row(name, item) ==
    LET dated == {i \in DOMAIN item.context : item.context[i] \in DateParts}
        as_int == int_of(item.text)
        as_float == float_of(item.text)
        row(value, data_type) ==
            [raised |-> FALSE, mdrm |-> mdrm_of(name), rssd |-> item.context[2],
             quarter |-> item.context[CHOOSE i \in dated : \A j \in dated : i <= j],
             value |-> value, data_type |-> data_type]
        failed == [raised |-> TRUE]
    IN IF item.context = NoContext \/ Len(item.context) < 2 \/ dated = {} THEN failed
       ELSE IF item.unit = "USD"
       THEN (IF as_int.raised THEN failed
             ELSE row([float |-> Fraction(as_int.value, 1000)], "int"))
       ELSE IF item.unit \in {"PURE", "NON-MONETARY"}
       THEN (IF as_float.raised THEN failed
             ELSE row([float |-> as_float.value], "float"))
       ELSE IF item.text = Text_true THEN row([bool |-> TRUE], "bool")
       ELSE IF item.text = Text_false THEN row([bool |-> FALSE], "bool")
       ELSE row([str |-> item.text], "str")

\* process_xbrl_item(name, items): the rows of the items, or the exception of the
\* first item that raises
process_xbrl_item(name, items) ==
    LET rows == [j \in DOMAIN items |-> xbrl_row(name, items[j])]
    IN IF \E j \in DOMAIN rows : rows[j].raised
       THEN [raised |-> TRUE, results |-> <<>>]
       ELSE [raised |-> FALSE, results |-> rows]

\* new_dict without the branch of the bool tag
new_dict_NoBool(row) ==
    LET base == [mdrm |-> row.mdrm, rssd |-> row.rssd, quarter |-> row.quarter]
        tagged == "data_type" :> row.data_type
    IN CASE row.data_type = "int" ->
               base @@ ("int_data" :> int_of_float(row.value.float)) @@ tagged
         [] row.data_type = "float" ->
               base @@ ("float_data" :> row.value.float) @@ tagged
         [] row.data_type = "str" -> base @@ ("str_data" :> row.value.str) @@ tagged
         [] OTHER -> base

\* the loop of process_xml over parsed_data: the record of a row
new_dict(row) ==
    LET base == [mdrm |-> row.mdrm, rssd |-> row.rssd, quarter |-> row.quarter]
        tagged == "data_type" :> row.data_type
    IN CASE row.data_type = "int" ->
               base @@ ("int_data" :> int_of_float(row.value.float)) @@ tagged
         [] row.data_type = "float" ->
               base @@ ("float_data" :> row.value.float) @@ tagged
         [] row.data_type = "str" -> base @@ ("str_data" :> row.value.str) @@ tagged
         [] row.data_type = "bool" -> base @@ ("bool_data" :> row.value.bool) @@ tagged
         [] OTHER -> base

\* the concatenation of a sequence of sequences
chain(ss) ==
    LET F[k \in 0..Len(ss)] == IF k = 0 THEN <<>> ELSE F[k - 1] \o ss[k]
    IN F[Len(ss)]

\* a member that is no XML document with an xbrl root
NoDocument == [parsed |-> FALSE, elements |-> <<>>]

\* xmltodict.parse(..)['xbrl']: the elements under the root, each a name and the
\* items under that name (one item standing for a list of one)
Document(elements) == [parsed |-> TRUE, elements |-> elements]

\* process_xml(data, tmp_file_name): the exception it raises, or the records it
\* writes
process_xml(data) ==
    LET keys_to_parse ==
            SelectSeq(data.elements, LAMBDA e : has_part(e.name, "cc:"))
            \o SelectSeq(data.elements, LAMBDA e : has_part(e.name, "uc:"))
        parsed == [k \in DOMAIN keys_to_parse |->
                      process_xbrl_item(keys_to_parse[k].name, keys_to_parse[k].items)]
        parsed_data == chain([k \in DOMAIN parsed |-> parsed[k].results])
    IN IF ~data.parsed \/ \E k \in DOMAIN parsed : parsed[k].raised
       THEN [raised |-> TRUE, ret_data |-> <<>>]
       ELSE [raised |-> FALSE,
             ret_data |-> [k \in DOMAIN parsed_data |-> new_dict(parsed_data[k])]]

\* a piece of the text in the temporary file: a bracket, a comma, or the
\* json.dumps of the records of a member
Piece(kind, ret_data) == [kind |-> kind, ret_data |-> ret_data]

\* a member of the archive: the parts of its name and what its bytes parse to
Member(filename, data) == [filename |-> filename, data |-> data]

\* file.filename.endswith('.xml') and 'RSSD' in file.filename
qualifies(file) ==
    /\ file.filename # <<>> /\ file.filename[Len(file.filename)] = ".xml"
    /\ \E i \in DOMAIN file.filename : file.filename[i] = "RSSD"

\* process_xbrl_file: files_list, the index of the member the loop is at, the text
\* of the temporary file, the members an error was printed for, and what the call
\* returned
XbrlRun(files, i, tmp, errors, returned, ret_str) ==
    [files |-> files, i |-> i, tmp |-> tmp, errors |-> errors, returned |-> returned,
     ret_str |-> ret_str]

NoXbrlRun == XbrlRun(<<>>, 0, <<>>, {}, FALSE, <<>>)

\* one turn of the loop of process_xbrl_file.  file == len(files_list) - 1 compares
\* a ZipInfo with a number and is never true
process_member(run) ==
    LET file == run.files[run.i]
        r == process_xml(file.data)
    IN IF ~qualifies(file) THEN [run EXCEPT !.i = run.i + 1]
       ELSE IF r.raised
       THEN [run EXCEPT !.i = run.i + 1, !.errors = run.errors \cup {run.i}]
       ELSE [run EXCEPT !.i = run.i + 1,
                        !.tmp = run.tmp \o <<Piece("json", r.ret_data), Piece(",", <<>>)>>]

\* the loop of process_xbrl_file reaches the next member
ProcessMember ==
    /\ xbrl.i \in DOMAIN xbrl.files
    /\ xbrl' = process_member(xbrl)
    /\ UNCHANGED <<dlvars, thumbprint_dir, skip_validation, vcall, fetched, vraised,
                   vresult, wcall, results, hashed,
                   lookup, conc, insts, applied>>

\* process_xbrl_file returns the text of the temporary file
ReturnText ==
    /\ xbrl.i = Len(xbrl.files) + 1
    /\ ~xbrl.returned
    /\ xbrl' = [xbrl EXCEPT !.returned = TRUE, !.ret_str = xbrl.tmp]
    /\ UNCHANGED <<dlvars, thumbprint_dir, skip_validation, vcall, fetched, vraised,
                   vresult, wcall, results, hashed,
                   lookup, conc, insts, applied>>

(***************************************************************************)
(* The archives process_xbrl_file is given.                                *)
(***************************************************************************)
MaxAmount == 1100

MaxMembers == 3

Name_cc == <<"cc:", "RCON2170">>

Name_uc == <<"uc:", "UBPR4107">>

Name_context == <<"xbrli:", "context">>

Context_37 == <<"CI", "37", "2024-03-31">>

Contexts ==
    {NoContext, Context_37, <<"CI", "37">>, <<"CI">>, <<"2024-03-31">>,
     <<"PI", "38", "2023-12-31", "2024-03-31">>}

Units == {"USD", "PURE", "NON-MONETARY", "SHARES", None}

Text_abc == <<"a", "b", "c">>

Texts ==
    {NoText, Text_true, Text_false, Text_abc, <<"1", ".", "5">>,
     <<"-", "0", ".", "2", "5">>, <<"1", "0", "0", "0">>}

Filename_RSSD_xml == <<"Call_Cert_", "RSSD", "37", ".xml">>

\* one element with one item
Element(name, items) == [name |-> name, items |-> items]

OneItem(name, item) == Member(Filename_RSSD_xml, Document(<<Element(name, <<item>>)>>))

\* archives of one member with one item: every context, unit and text, and every
\* amount up to MaxAmount under every unit
ItemArchives ==
    {<<OneItem(name, Item(context, unit, text))>> :
        name \in {Name_cc, Name_uc, Name_context}, context \in Contexts,
        unit \in Units, text \in Texts}
    \cup {<<OneItem(Name_cc, Item(Context_37, unit, IntText(n)))>> :
             unit \in Units, n \in (0 - MaxAmount)..MaxAmount}

Item_assets == Item(Context_37, "USD", <<"2", "5", "0", "0">>)

Item_flag == Item(Context_37, None, Text_true)

Item_ratio == Item(Context_37, "PURE", <<"1", ".", "5">>)

\* a member whose items are well-formed but for the item bad, the second of three
\* under one name
MemberWith(bad) ==
    Member(Filename_RSSD_xml,
           Document(<<Element(Name_cc, <<Item_assets, bad, Item_flag>>),
                      Element(Name_uc, <<Item_ratio>>)>>))

GoodDocument ==
    Document(<<Element(Name_cc, <<Item_assets, Item_flag>>),
               Element(Name_uc, <<Item_ratio>>),
               Element(Name_context, <<Item(NoContext, None, NoText)>>)>>)

Members ==
    {Member(Filename_RSSD_xml, GoodDocument),
     MemberWith(Item(NoContext, "USD", <<"7">>)),
     MemberWith(Item(<<"CI", "37">>, "USD", <<"7">>)),
     MemberWith(Item(Context_37, "USD", Text_abc)),
     Member(Filename_RSSD_xml, NoDocument),
     Member(<<"Call_Cert_", "RSSD", "37", ".txt">>, GoodDocument),
     Member(<<"Readme", ".xml">>, GoodDocument)}

MemberArchives == UNION {[1..k -> Members] : k \in 0..MaxMembers}

Archives == ItemArchives \cup MemberArchives

(***************************************************************************)
(* ValidatedFFIECDownloader.download.                                      *)
(***************************************************************************)
WCall(product, arg, format, save, validated, invoked) ==
    [product |-> product, arg |-> arg, format |-> format, save_to_disk |-> save,
     validated |-> validated, invoked |-> invoked]

NoWCall == WCall(None, NoArg, None, FALSE, "no", FALSE)

\* the bulk download pages the validator of a validated download fetches
WrapperPages ==
    FailedPages \cup
    {KnownPage,
     [KnownPage EXCEPT !.generator = "CA0B0334"],
     [KnownPage EXCEPT !.dopostback = FALSE]}

\* self.downloader.download(*args, **kwargs), up to its first request
InvokeDownload(w) ==
    /\ call' = Call("download", w.product, w.arg, w.format, w.save_to_disk)
    /\ Continue(IF sess.viewstate = None THEN "GET" ELSE "POST_product")

\* ValidatedFFIECDownloader.download(product, period, format, save_to_disk), up to
\* its first request
CallValidatedDownload(product, arg, format, save) ==
    /\ pc = "idle"
    /\ trace' = <<>>
    /\ written' = <<>>
    /\ NoExchange
    /\ IF skip_validation
       THEN /\ wcall' = WCall(product, arg, format, save, "no", TRUE)
            /\ InvokeDownload(wcall')
       ELSE /\ wcall' = WCall(product, arg, format, save, "no", FALSE)
            /\ call' = NoCall
            /\ Continue("VALIDATE")
    /\ UNCHANGED <<sess, listed, listOwner, thumbprint_dir, skip_validation, results,
                   hashed, vcall,
                   fetched, vraised, vresult, xbrl, lookup, conc, insts, applied>>

\* a validated download that goes on to the download whatever validate did
StepValidate_IgnoresOutcome(page) ==
    /\ pc = "VALIDATE"
    /\ LET r == validate(thumbprint_dir, page, URL_BULK, "bulk_download")
       IN /\ thumbprint_dir' = r.dir
          /\ vraised' = r.raised
          /\ vresult' = r.result
          /\ wcall' = [wcall EXCEPT !.validated =
                          IF r.raised # NoError THEN "raised" ELSE "passed",
                                    !.invoked = TRUE]
          /\ InvokeDownload(wcall)
    /\ vcall' = VCall("validate", "bulk_download", exists(thumbprint_dir, "bulk_download"))
    /\ fetched' = page
    /\ UNCHANGED <<sess, trace, lastReq, lastAns, lastResp, lastBearing, listed,
                   listOwner, written, skip_validation, results,
                   hashed, xbrl,
                   lookup, conc, insts, applied>>

\* the validation of a validated download and what follows it up to the first
\* request of the download
StepValidate(page) ==
    /\ pc = "VALIDATE"
    /\ LET r == validate(thumbprint_dir, page, URL_BULK, "bulk_download")
       IN /\ thumbprint_dir' = r.dir
          /\ vraised' = r.raised
          /\ vresult' = r.result
          /\ IF r.raised # NoError
             THEN /\ Raise(r.raised)
                  /\ wcall' = [wcall EXCEPT !.validated = "raised"]
                  /\ UNCHANGED call
             ELSE IF ~r.result.valid
             THEN /\ Raise(ErrCannotProceed)
                  /\ wcall' = [wcall EXCEPT !.validated = "invalid"]
                  /\ UNCHANGED call
             ELSE /\ wcall' = [wcall EXCEPT !.validated = "passed", !.invoked = TRUE]
                  /\ InvokeDownload(wcall)
    /\ vcall' = VCall("validate", "bulk_download", exists(thumbprint_dir, "bulk_download"))
    /\ fetched' = page
    /\ UNCHANGED <<sess, trace, lastReq, lastAns, lastResp, lastBearing, listed,
                   listOwner, written, skip_validation, results,
                   hashed, xbrl,
                   lookup, conc, insts, applied>>

Start ==
    /\ sess = NewSession
    /\ pc = "idle"
    /\ call = NoCall
    /\ trace = <<>>
    /\ lastReq = NoRequest
    /\ lastAns = NoAnswer
    /\ lastResp = NoToken
    /\ lastBearing = NoToken
    /\ listed = [present |-> FALSE, options |-> <<>>]
    /\ listOwner = None
    /\ raised = NoError
    /\ result = NoResult
    /\ written = <<>>
    /\ thumbprint_dir = NoBaselines
    /\ vcall = NoVCall
    /\ fetched = NoPage
    /\ vraised = NoError
    /\ vresult = NoValidation
    /\ wcall = NoWCall
    /\ results = NoResults

\* a FFIECDownloader, and a ThumbprintValidator whose directory holds no baseline
Init ==
    /\ Start /\ skip_validation = FALSE /\ hashed = NoHashed /\ xbrl = NoXbrlRun
    /\ lookup = NoLookup /\ conc = NoConc /\ insts = NoInsts /\ applied = NoApplied

\* a ValidatedFFIECDownloader constructed with either value of skip_validation
InitVD ==
    /\ Start /\ skip_validation \in BOOLEAN /\ hashed = NoHashed /\ xbrl = NoXbrlRun
    /\ lookup = NoLookup /\ conc = NoConc /\ insts = NoInsts /\ applied = NoApplied

Next ==
    \/ CallInitialize
    \/ \E product \in CallerProducts : CallSelectProduct(product)
    \/ \E arg \in PeriodArgs : CallSelectPeriod(arg)
    \/ \E format \in FileFormat : CallSelectFormat(format)
    \/ \E product \in CallerProducts, arg \in PeriodArgs, format \in FileFormat,
          save \in BOOLEAN : CallDownload(product, arg, format, save)
    \/ \E resp \in GetResponses : StepInitialize(resp)
    \/ \E resp \in ProductResponses : StepSelectProduct(resp)
    \/ \E resp \in SelectResponses : StepSelectPeriod(resp)
    \/ \E resp \in SelectResponses : StepSelectFormat(resp)
    \/ \E resp \in TriggerResponses : StepDownload(resp)

Spec == Init /\ [][Next]_vars

\* the validator on its own: validate calls and the capture command
NextV ==
    \/ \E page_type \in PageTypes :
          \E page \in PageResponses(page_type) : Validate(page_type, page)
    \/ \E page_type \in PageTypes :
          \E page \in PageResponses(page_type) : CaptureCommand(page_type, page)

SpecV == Init /\ [][NextV]_vars

\* the pages the portal answers a validator that validates over and over: per
\* category the known page, pages that differ from it, and a failed request
DriftPages(page_type) ==
    CASE page_type = "bulk_download" ->
            {KnownPage,
             [KnownPage EXCEPT !.generator = "CA0B0334"],
             [KnownPage EXCEPT !.inputs = <<Input_EventTarget, Input_TSV, Input_XBRL,
                                            Input_Download, Input_Search>>],
             [KnownPage EXCEPT !.dopostback = FALSE],
             Page("http_error", FALSE, GenAbsent, <<>>, <<>>, FALSE, FALSE)}
      [] page_type = "taxonomy" ->
            TaxonomyPages
            \cup {Page("conn_error", FALSE, GenAbsent, <<>>, <<>>, FALSE, FALSE)}
      [] page_type = "bhc_financial" ->
            {KnownBhcPage,
             Page("http_error", FALSE, GenAbsent, <<>>, <<>>, FALSE, FALSE)}

\* serialized validate and validate_all calls of one validator
NextVA ==
    \/ \E page_type \in PageTypes :
          \E page \in DriftPages(page_type) : Validate(page_type, page)
    \/ CallValidateAll
    \/ \E page_type \in PageTypes :
          \E page \in DriftPages(page_type) : StepValidateAll(page_type, page)

SpecVA == Init /\ [][NextVA]_vars

\* a fingerprint, and the fingerprints made from it
InitH ==
    /\ Start /\ skip_validation = FALSE /\ xbrl = NoXbrlRun
    /\ lookup = NoLookup /\ conc = NoConc /\ insts = NoInsts /\ applied = NoApplied
    /\ \E t \in Fingerprints : hashed = Hashed(t, t, None, None)

NextH ==
    \/ \E field \in ListFields :
          \E s \in reorderings(OrEmpty(hashed.before[field])) : Reorder(field, s)
    \/ \E i \in 1..3, field \in {"name", "id", "type"}, value \in ElementTexts :
          ChangeElement(i, field, value)
    \/ ExchangeIds

SpecH == InitH /\ [][NextH]_vars

\* process_xbrl_file(file_name) on an archive
InitX ==
    /\ Start /\ skip_validation = FALSE /\ hashed = NoHashed
    /\ lookup = NoLookup /\ conc = NoConc /\ insts = NoInsts /\ applied = NoApplied
    /\ \E files \in Archives :
          xbrl = XbrlRun(files, 1, <<Piece("[", <<>>)>>, {}, FALSE, <<>>)

\* the text a page has after an "Updated: " marker; <<>> is a page without the marker
Text_13_45_2025 == <<"1", "3", "/", "4", "5", "/", "2", "0", "2", "5">>

Text_2_30_2025 == <<"2", "/", "3", "0", "/", "2", "0", "2", "5">>

Text_soon == <<"s", "o", "o", "n">>

Text_7_15_20255 == Text_7_15_2025 \o <<"5">>

MarkerTexts ==
    {<<>>, Text_7_15_2025, Text_6_30_2025, Text_13_45_2025, Text_2_30_2025, Text_soon,
     Text_7_15_20255}

\* answers to the GET of the portal root with every pair of marker texts
DatedResponses ==
    FailedResponses \cup
    {Response("ok", CT_HTML, "", tok, FALSE, <<>>, <<>>, ctext, utext) :
        tok \in TokenFields, ctext \in MarkerTexts, utext \in MarkerTexts}

\* the display dates of periods: every month, with and without its leading zero,
\* and texts that are no date
DisplayDates ==
    {strftime_mdY([y |-> y, m |-> m, d |-> d]) :
        y \in {2023, 2024}, m \in 1..12, d \in {1, 28}}
    \cup {<<Digits[m + 1], "/", "3", "0", "/", "2", "0", "2", "4">> : m \in {1, 3, 4, 6, 9}}
    \cup {Date_03_31_2024, Date_12_31_2023, Text_13_45_2025,
          <<"2", "0", "2", "4", "-", "0", "3", "-", "3", "1">>}

AppliedPeriods == {ReportingPeriod(v, ds) : v \in {"146", "145"}, ds \in DisplayDates}

\* a function and the arguments it is applied to
InitF ==
    /\ Start /\ skip_validation = FALSE /\ hashed = NoHashed /\ xbrl = NoXbrlRun
    /\ lookup = NoLookup /\ conc = NoConc /\ insts = NoInsts
    /\ \/ \E resp \in DatedResponses :
             applied = Applied("initialize", resp, None, NoPeriod, None, FALSE, NoValue)
       \/ \E period \in AppliedPeriods :
             applied = Applied("period", NoResponse, None, period, None, FALSE, NoValue)
       \/ \E product \in Product, period \in AppliedPeriods, format \in FileFormat :
             applied = Applied("filename", NoResponse, product, period, format, FALSE,
                               NoValue)

NextF == ApplyInitialize \/ ApplyPeriodProperties \/ ApplyExpectedFilename

SpecF == InitF /\ [][NextF]_vars

InstanceTokens == [vs : {ViewStateName[1], ViewStateName[2]}, gen : Generators]

\* what the portal answers an instance: a failed request, or a page with a token
\* and, to the product POST, the period selector; to the trigger, a file
InstanceResponses(at) ==
    {Response("http_error", "", "", NoToken, FALSE, <<>>, <<>>, <<>>, <<>>)} \cup
    CASE at = "GET" ->
            {Response("ok", CT_HTML, "", tok, FALSE, <<>>, <<>>, Text_7_15_2025,
                      Text_6_30_2025) : tok \in InstanceTokens}
      [] at = "POST_product" ->
            {Response("ok", CT_HTML, "", tok, TRUE, opts, <<>>, <<>>, <<>>) :
                tok \in InstanceTokens,
                opts \in {<<ReportingPeriod("146", Date_03_31_2024),
                             ReportingPeriod("145", Date_12_31_2023)>>}}
      [] at \in {"POST_period", "POST_format"} ->
            {Response("ok", CT_HTML, "", tok, FALSE, <<>>, <<>>, <<>>, <<>>) :
                tok \in InstanceTokens}
      [] OTHER ->
            {Response("ok", CT_OCTET, CD_ATTACH, NoToken, FALSE, <<>>, <<80, 75>>,
                      <<>>, <<>>)}

\* two new instances, a download called on each
InitI ==
    /\ Start /\ skip_validation = FALSE /\ hashed = NoHashed /\ xbrl = NoXbrlRun
    /\ lookup = NoLookup /\ conc = NoConc /\ applied = NoApplied
    /\ \E first \in CallerProducts, second \in CallerProducts :
       \E arg \in PeriodArgs :
          insts = <<download_begin(NewInstance, first, arg, "XBRL"),
                    download_begin(NewInstance, second,
                                   [is_str |-> FALSE,
                                    period |-> ReportingPeriod("145", Date_12_31_2023),
                                    str |-> <<>>], "TSV")>>

NextI == \E i \in 1..2 : \E resp \in InstanceResponses(insts[i].pc) : InstanceStep(i, resp)

SpecI == InitI /\ [][NextI]_vars

\* the baseline a category has after a capture of its known page
KnownBaseline(page_type) ==
    capture_thumbprint(CASE page_type = "bulk_download" -> KnownPage
                         [] page_type = "taxonomy" -> KnownTaxonomyPage
                         [] page_type = "bhc_financial" -> KnownBhcPage,
                       KNOWN_URL(page_type), page_type)

\* two validate calls begin on a directory that holds the known baseline of some
\* of the categories
InitC ==
    /\ sess = NewSession /\ pc = "idle" /\ call = NoCall /\ trace = <<>>
    /\ lastReq = NoRequest /\ lastAns = NoAnswer
    /\ lastResp = NoToken /\ lastBearing = NoToken
    /\ listed = [present |-> FALSE, options |-> <<>>] /\ listOwner = None
    /\ raised = NoError /\ result = NoResult /\ written = <<>>
    /\ vcall = NoVCall /\ fetched = NoPage /\ vraised = NoError
    /\ vresult = NoValidation /\ wcall = NoWCall /\ results = NoResults
    /\ skip_validation = FALSE /\ hashed = NoHashed /\ xbrl = NoXbrlRun
    /\ lookup = NoLookup /\ insts = NoInsts /\ applied = NoApplied
    /\ \E held \in SUBSET PageTypes :
          thumbprint_dir = [page_type \in PageTypes |->
                               IF page_type \in held THEN KnownBaseline(page_type)
                               ELSE NoThumbprint]
    /\ \E first \in PageTypes, second \in PageTypes :
          conc = Conc(<<Called(first), Called(second)>>, thumbprint_dir, <<>>)

NextC ==
    \E p \in 1..2 :
        \/ \E page \in DriftPages(conc.procs[p].page_type) : ConcCapture(p, page)
        \/ ConcExists(p)
        \/ ConcLoad(p)
        \/ ConcSave(p)

SpecC == InitC /\ [][NextC]_vars

\* the options a portal page may list: a display date with and without the zero
\* of the month, and one date under two values
ListedPeriods ==
    PortalPeriods \cup
    {ReportingPeriod("147", <<"3", "/", "3", "1", "/", "2", "0", "2", "4">>),
     ReportingPeriod("150", Date_03_31_2024)}

MaxListed == 3

ListedLists == UNION {[1..k -> ListedPeriods] : k \in 0..MaxListed}

\* the dates looked for that may be in no entry
AbsentDates == {[y |-> 2024, m |-> 6, d |-> 30], [y |-> 2023, m |-> 12, d |-> 31]}

\* a period list with the date of one of its entries, or with a date of none
InitL ==
    /\ Start /\ skip_validation = FALSE /\ hashed = NoHashed /\ xbrl = NoXbrlRun
    /\ conc = NoConc /\ insts = NoInsts /\ applied = NoApplied
    /\ \E periods \in ListedLists :
          \/ \E i \in DOMAIN periods :
                lookup = Lookup(periods, yyyymmdd(periods[i]), periods[i].date_str,
                                TRUE, {}, NotResolved, NotResolved)
          \/ \E dt \in AbsentDates :
                /\ \A i \in DOMAIN periods : ReportingPeriod_date(periods[i]) # dt
                /\ lookup = Lookup(periods, Pad4(dt.y) \o Pad2(dt.m) \o Pad2(dt.d),
                                   strftime_mdY(dt), FALSE, {}, NotResolved, NotResolved)

NextL == ResolveByKey \/ ResolveBySlash

SpecL == InitL /\ [][NextL]_vars

NextX == ProcessMember \/ ReturnText

SpecX == InitX /\ [][NextX]_vars

\* the answers the portal gives a validated download: of each kind of answer the
\* one with the first token, the full period selector and the shorter body
Plain(resp) ==
    /\ resp.status # "conn_error"
    /\ resp.token \in {NoToken, [vs |-> ViewStateName[1], gen |-> "651D9554"]}
    /\ resp.options \in {<<>>, <<ReportingPeriod("146", Date_03_31_2024),
                                  ReportingPeriod("145", Date_12_31_2023)>>}
    /\ resp.select_present = (resp.options # <<>>)
    /\ resp.body \in {<<>>, <<80, 75>>}
    /\ resp.disposition # CD_ATTACH_NAMED

\* validated downloads
NextVD ==
    \/ \E product \in CallerProducts, arg \in PeriodArgs, format \in FileFormat,
          save \in BOOLEAN : CallValidatedDownload(product, arg, format, save)
    \/ \E page \in WrapperPages : StepValidate(page)
    \/ \E resp \in {r \in GetResponses : Plain(r)} : StepInitialize(resp)
    \/ \E resp \in {r \in ProductResponses : Plain(r)} : StepSelectProduct(resp)
    \/ \E resp \in {r \in SelectResponses : Plain(r)} : StepSelectPeriod(resp)
    \/ \E resp \in {r \in SelectResponses : Plain(r)} : StepSelectFormat(resp)
    \/ \E resp \in {r \in TriggerResponses : Plain(r)} : StepDownload(resp)

SpecVD == InitVD /\ [][NextVD]_vars


(***************************************************************************)
(* Properties of the protocol client.                                      *)
(***************************************************************************)
Last(s) == s[Len(s)]

IsPrefix(s, q) == Len(s) <= Len(q) /\ \A i \in 1..Len(s) : s[i] = q[i]

\* this step sends a POST
PostSent == pc \notin {"idle", "GET"} /\ trace' # trace

\* C1: select_period called while no product is selected, and select_format called
\* while no product or no period is selected, end with an error, send no request and
\* leave every field of the session as it was, whatever happened before.
C1_OutOfOrderRejected ==
    [][(/\ pc = "idle"
        /\ \/ call'.op = "select_period" /\ sess.current_product = None
           \/ /\ call'.op = "select_format"
              /\ sess.current_product = None \/ sess.current_period = NoPeriod)
       => (/\ raised'.type = "ValueError"
           /\ pc' = "idle"
           /\ trace' = <<>>
           /\ lastReq' = NoRequest
           /\ sess' = sess)]_vars

\* a select_format rejected for want of a period, on a session that has a token and
\* a product
C1_Witness ==
    /\ pc = "idle"
    /\ call.op = "select_format"
    /\ raised = ErrProductPeriodFirst
    /\ sess.viewstate # None
    /\ sess.current_product # None
    /\ sess.current_period = NoPeriod
    /\ trace = <<>>

\* C2 as stated: every POST carries both token fields, non-null, equal to the token of
\* the response received immediately before it.
C2_TokenFromPreviousResponse ==
    [][PostSent =>
         (/\ lastReq'.VIEWSTATE # None
          /\ lastReq'.VIEWSTATEGENERATOR # None
          /\ lastReq'.VIEWSTATE = lastResp.vs
          /\ lastReq'.VIEWSTATEGENERATOR = lastResp.gen)]_vars

\* C2 amended: every POST carries both token fields, non-null, equal to the token of
\* the most recent response the client took a token from (the initial GET, or an
\* HTML answer to a POST that has both markers); any other response leaves the token
\* as it was.
C2_TokenFromLastBearingResponse ==
    [][PostSent =>
         (/\ lastReq'.VIEWSTATE # None
          /\ lastReq'.VIEWSTATEGENERATOR # None
          /\ lastReq'.VIEWSTATE = lastBearing.vs
          /\ lastReq'.VIEWSTATEGENERATOR = lastBearing.gen)]_vars

\* a download on a session that already held a token: four POSTs, the last answered
\* by a file, which carries no token
C2_Witness ==
    /\ pc = "idle"
    /\ trace = <<"product", "period", "format", "trigger">>
    /\ result.dr.success
    /\ lastResp = NoToken
    /\ lastReq.VIEWSTATE = lastBearing.vs
    /\ lastReq.VIEWSTATE # None

\* a date string matches a period: it is the period's display string or its 8-digit key
Matches(str, p) == str = p.date_str \/ str = yyyymmdd(p)

\* the period list of the selected product that the client holds: none when the list
\* it holds was returned for another product
ProductPeriods ==
    IF listOwner = sess.current_product THEN sess.available_periods ELSE <<>>

\* C3: with a product selected, select_period given a date string that matches no
\* entry of that product's period list raises, sends no POST and leaves the selected
\* period and the token as they were.
C3_UnlistedPeriodRejected ==
    [][(/\ pc = "idle"
        /\ call'.op = "select_period"
        /\ call'.arg.is_str
        /\ sess.current_product # None
        /\ \A i \in 1..Len(ProductPeriods) : ~Matches(call'.arg.str, ProductPeriods[i]))
       => (/\ raised'.type = "ValueError"
           /\ pc' = "idle"
           /\ trace' = <<>>
           /\ sess'.current_period = sess.current_period
           /\ sess'.viewstate = sess.viewstate
           /\ sess'.viewstate_generator = sess.viewstate_generator)]_vars

\* C4: whenever the answer to the trigger POST is not a file, download returns a
\* DownloadResult with success = False and an error message, and does not raise.
C4_NotAFileIsAResult ==
    (/\ pc = "idle"
     /\ call.op = "download"
     /\ lastReq.kind = "trigger"
     /\ lastAns.status = "ok"
     /\ ~is_octet(lastAns.content_type)
     /\ ~is_attachment(lastAns.disposition))
    => (/\ raised = NoError
        /\ result.kind = "DownloadResult"
        /\ ~result.dr.success
        /\ result.dr.error_message # None)

\* C5: an operation that ends with an error or with success = False has written no
\* file; a file is written only once the answer to the trigger POST is classified as
\* a file, and then once, with all the bytes of that answer.
C5_NoFileUnlessDownloaded ==
    /\ call.op # "download" => written = <<>>
    /\ pc # "idle" => written = <<>>
    /\ (pc = "idle" /\ (raised # NoError \/ ~result.dr.success)) => written = <<>>
    /\ written # <<>> =>
          /\ Len(written) = 1
          /\ written[1].content = lastAns.body
          /\ lastReq.kind = "trigger"
          /\ lastAns.status = "ok"
          /\ is_octet(lastAns.content_type) \/ is_attachment(lastAns.disposition)
          /\ raised = NoError
          /\ result.dr.success
          /\ result.dr.size_bytes = Len(lastAns.body)

\* a download that saved the longer of the two bodies
C5_Witness ==
    /\ pc = "idle"
    /\ call.op = "download"
    /\ Len(written) = 1
    /\ Len(written[1].content) = 3
    /\ result.dr.success

DownloadSequence == <<"GET", "product", "period", "format", "trigger">>

\* C6: the requests of one download are, in this order, the GET (only when the client
\* holds no token), the product POST, the period POST, the format POST and the
\* trigger POST; none is skipped or repeated; download returns only after the trigger
\* POST, and an error ends the sequence.
C6_DownloadOrder ==
    call.op = "download" =>
        /\ IsPrefix(trace, DownloadSequence) \/ IsPrefix(trace, Tail(DownloadSequence))
        /\ pc = "GET" => trace = <<>> /\ sess.viewstate = None
        /\ pc = "POST_product" =>
              (trace = <<>> /\ sess.viewstate # None) \/ trace = <<"GET">>
        /\ pc = "POST_period" => trace # <<>> /\ Last(trace) = "product"
        /\ pc = "POST_format" => trace # <<>> /\ Last(trace) = "period"
        /\ pc = "POST_trigger" => trace # <<>> /\ Last(trace) = "format"
        /\ (pc = "idle" /\ raised = NoError) => trace # <<>> /\ Last(trace) = "trigger"
        /\ raised # NoError => pc = "idle"

\* a download on a fresh client that sent all five requests and returned
C6_Witness ==
    /\ pc = "idle"
    /\ call.op = "download"
    /\ raised = NoError
    /\ trace = DownloadSequence

(***************************************************************************)
(* Properties of the validated download and of the validator.              *)
(***************************************************************************)
\* C7: with validation enabled, a validated download validates before the download
\* is invoked, and invokes it (sends any of its requests) only after validate
\* returned valid; when validate raises, the download is never invoked and no request
\* of it is sent.  With skip_validation the validator is never called and the
\* download is invoked with the arguments of the call.
C7_ValidationBeforeDownload ==
    /\ ~skip_validation =>
          /\ (wcall.invoked \/ trace # <<>> \/ call.op = "download") =>
                /\ wcall.validated = "passed"
                /\ vcall.op = "validate"
                /\ vraised = NoError
                /\ vresult.valid
          /\ wcall.validated \in {"raised", "invalid"} =>
                /\ ~wcall.invoked
                /\ pc = "idle"
                /\ raised.type \in {"WebpageChangeException", "HTTPError", "ConnectionError"}
                /\ trace = <<>>
                /\ lastReq = NoRequest
          /\ pc = "VALIDATE" => ~wcall.invoked /\ trace = <<>>
    /\ skip_validation =>
          /\ vcall = NoVCall
          /\ thumbprint_dir = NoBaselines
          /\ wcall.validated = "no"
          /\ wcall # NoWCall => wcall.invoked
    /\ (wcall.invoked /\ pc # "idle") =>
          /\ call.op = "download"
          /\ call.product = wcall.product
          /\ call.arg = wcall.arg
          /\ call.format = wcall.format
          /\ call.save_to_disk = wcall.save_to_disk

\* a validated download stopped by a critical change, on a client whose earlier
\* validated download got as far as a token
C7_Witness ==
    /\ ~skip_validation
    /\ wcall.validated = "raised"
    /\ vraised = ErrWebpageChange
    /\ vcall.had_baseline
    /\ sess.viewstate # None
    /\ trace = <<>>

\* the baseline and the fresh capture of the last validate that found a baseline
Baseline == thumbprint_dir[vcall.page_type]

Fresh == capture_thumbprint(fetched, KNOWN_URL(vcall.page_type), vcall.page_type)

\* the last operation was a validate that found a baseline and fetched a page
ValidatedAgainstBaseline ==
    /\ vcall.op = "validate"
    /\ vcall.had_baseline
    /\ fetched.status = "ok"

\* C8: with a baseline, validate raises WebpageChangeException whenever the
\* state-marker flag, the generator-marker flag or the generator value of the fresh
\* capture differs from the baseline's.
C8_TokenDriftRaises ==
    (/\ ValidatedAgainstBaseline
     /\ \/ Baseline.viewstate_present # Fresh.viewstate_present
        \/ Baseline.viewstate_generator_present # Fresh.viewstate_generator_present
        \/ Baseline.viewstate_generator_value # Fresh.viewstate_generator_value)
    => vraised = ErrWebpageChange

\* the (name, id, type) triples of the form elements of a thumbprint
Triples(t) ==
    {<<e.name, e.id, e.type>> :
        e \in {OrEmpty(t.form_elements)[k] : k \in DOMAIN OrEmpty(t.form_elements)}}

\* C9: with a baseline, validate raises WebpageChangeException whenever some form
\* element of the baseline, identified by (name, id, type), does not occur in the
\* fresh capture, however many new elements the fresh capture has.
C9_MissingElementRaises ==
    (/\ ValidatedAgainstBaseline
     /\ \E x \in Triples(Baseline) : x \notin Triples(Fresh))
    => (/\ vraised = ErrWebpageChange
        /\ \E i \in DOMAIN vresult.critical_changes :
              vresult.critical_changes[i] = "Missing form elements")

\* a validate that raised for a missing element alone, the fresh page having an
\* element the baseline lacks
C9_Witness ==
    /\ ValidatedAgainstBaseline
    /\ vraised = ErrWebpageChange
    /\ vresult.critical_changes = <<"Missing form elements">>
    /\ \E x \in Triples(Fresh) : x \notin Triples(Baseline)

\* the product selector values of a thumbprint: none when the list is empty or absent
ProductValues(t) == {OrEmpty(t.products)[k].value : k \in DOMAIN OrEmpty(t.products)}

\* C10: with a baseline, validate raises WebpageChangeException whenever the set of
\* product selector values of the fresh capture differs from the baseline's, an empty
\* or absent set included.
C10_ProductDriftRaises ==
    (/\ ValidatedAgainstBaseline
     /\ ProductValues(Baseline) # ProductValues(Fresh))
    => vraised = ErrWebpageChange

\* the download-trigger identifiers of a thumbprint: none when the list is empty or
\* absent
ButtonIds(t) == set(OrEmpty(t.download_button_ids))

\* C11: with a baseline, validate raises WebpageChangeException whenever the set of
\* download-trigger identifiers of the fresh capture differs from the baseline's, a
\* fresh capture with no such identifier included.
C11_ButtonDriftRaises ==
    (/\ ValidatedAgainstBaseline
     /\ ButtonIds(Baseline) # ButtonIds(Fresh))
    => vraised = ErrWebpageChange

\* the form elements of a thumbprint
Elements(t) == {OrEmpty(t.form_elements)[k] : k \in DOMAIN OrEmpty(t.form_elements)}

\* the fresh capture differs from the baseline only by form elements the baseline
\* lacks
OnlyNewElements ==
    /\ ValidatedAgainstBaseline
    /\ [Fresh EXCEPT !.form_elements = Baseline.form_elements] = Baseline
    /\ Elements(Baseline) \subseteq Elements(Fresh)
    /\ Elements(Fresh) # Elements(Baseline)
    /\ \A e \in Elements(Fresh) \ Elements(Baseline) :
          <<e.name, e.id, e.type>> \notin Triples(Baseline)

\* C12: when the fresh capture differs from the baseline only by form elements the
\* baseline lacks, validate does not raise: it returns valid = True with a warning
\* that names the new elements.
C12_NewElementsWarn ==
    OnlyNewElements =>
        /\ vraised = NoError
        /\ vresult.returned
        /\ vresult.valid
        /\ \E i \in DOMAIN vresult.warnings :
              /\ vresult.warnings[i].text = "New form elements found"
              /\ vresult.warnings[i].about = Triples(Fresh) \ Triples(Baseline)

\* a validate against the known page that found one more input on the fresh page
C12_Witness ==
    /\ OnlyNewElements
    /\ Baseline.viewstate_generator_value = "651D9554"
    /\ Len(vresult.warnings) = 1
    /\ vresult.warnings[1].about # {}

\* C13: a flip of uses_dopostback or of uses_webform_postback between the baseline
\* and the fresh capture never makes validate raise by itself (with every other field
\* as in the baseline validate returns valid = True), and the returned result carries
\* a warning for it.
C13_PostbackFlipWarns ==
    (/\ ValidatedAgainstBaseline
     /\ \/ Baseline.uses_dopostback # Fresh.uses_dopostback
        \/ Baseline.uses_webform_postback # Fresh.uses_webform_postback
     /\ [Fresh EXCEPT !.uses_dopostback = Baseline.uses_dopostback,
                      !.uses_webform_postback = Baseline.uses_webform_postback] = Baseline)
    => (/\ vraised = NoError
        /\ vresult.valid
        /\ vresult.warnings # <<>>)

\* the last operation was a validate that found no baseline and fetched a page
FirstRun ==
    /\ vcall.op = "validate"
    /\ ~vcall.had_baseline
    /\ fetched.status = "ok"

\* C14: for a category without a baseline file, validate returns valid = True, a
\* warning list that starts with the first-run message, current_hash equal to the
\* hash of the fresh capture and no stored_hash; afterwards the baseline file of the
\* category exists and holds the fresh capture, whatever the page contains.
C14_FirstRunSavesBaseline ==
    FirstRun =>
        /\ vraised = NoError
        /\ vresult.returned
        /\ vresult.valid
        /\ vresult.warnings # <<>>
        /\ vresult.warnings[1].text = "First run - thumbprint saved"
        /\ vresult.current_hash = Fresh.structural_hash
        /\ vresult.stored_hash = NoHash
        /\ exists(thumbprint_dir, vcall.page_type)
        /\ from_dict(thumbprint_dir[vcall.page_type]) = Fresh

\* a first run on a bulk download page that lacks the state marker
C14_Witness ==
    /\ FirstRun
    /\ vcall.page_type = "bulk_download"
    /\ ~fetched.viewstate
    /\ thumbprint_dir["bulk_download"] = Fresh

\* a validate of a category right after the first validate of that category, the
\* page fetched being the one the first validate fetched
SecondValidateOfSamePage ==
    /\ vcall.op = "validate" /\ ~vcall.had_baseline
    /\ fetched.status = "ok" /\ vraised = NoError
    /\ vcall'.op = "validate" /\ vcall'.had_baseline
    /\ vcall'.page_type = vcall.page_type
    /\ fetched' = fetched

\* C15: when the page is the same on two consecutive validates of a category, the
\* first being the first run, the second returns valid=true and its stored_hash
\* equals its current_hash, which equals the current_hash the first call returned
C15_SecondValidateSameHash ==
    [][SecondValidateOfSamePage =>
          /\ vraised' = NoError
          /\ vresult'.returned /\ vresult'.valid
          /\ vresult'.stored_hash = vresult'.current_hash
          /\ vresult'.current_hash = vresult.current_hash]_vars

C15_Witness ==
    /\ vcall.op = "validate" /\ vcall.had_baseline
    /\ vcall.page_type = "taxonomy"
    /\ fetched = KnownTaxonomyPage
    /\ Baseline = Fresh
    /\ vraised = NoError /\ vresult.valid
    /\ vresult.stored_hash = vresult.current_hash
    /\ vresult.current_hash = Fresh.structural_hash

\* C16: over validate and validate_all calls the baseline of a category is written
\* once, by the first validate that finds none: a validate that finds none and
\* captures the page writes the capture, no step writes the baseline of another
\* category, and a baseline that exists is the same after every later step
C16_BaselineWrittenOnce ==
    [][\A page_type \in PageTypes :
          IF exists(thumbprint_dir, page_type)
          THEN thumbprint_dir'[page_type] = thumbprint_dir[page_type]
          ELSE LET first == /\ vcall'.op \in {"validate", "validate_all"}
                            /\ vcall'.page_type = page_type
                            /\ fetched'.status = "ok"
                            /\ vcall' # vcall \/ fetched' # fetched
               IN IF first
                  THEN thumbprint_dir'[page_type] =
                          capture_thumbprint(fetched', KNOWN_URL(page_type), page_type)
                  ELSE ~exists(thumbprint_dir', page_type)]_vars

\* a validate_all found a baseline of the bulk download page and a page with critical
\* changes, and the baseline is still the capture of the known page
C16_Witness ==
    /\ vcall.op = "validate_all" /\ vcall.page_type = "bulk_download"
    /\ vcall.had_baseline
    /\ fetched = [KnownPage EXCEPT !.generator = "CA0B0334"]
    /\ ~results["bulk_download"].valid
    /\ thumbprint_dir["bulk_download"] =
          capture_thumbprint(KnownPage, URL_BULK, "bulk_download")

\* the validate of the last turn of validate_all raised: the request failed, or the
\* page has critical changes against the baseline the turn found
TurnRaised ==
    \/ fetched.status # "ok"
    \/ /\ vcall.had_baseline
       /\ compare_thumbprints(from_dict(Baseline), Fresh).critical_changes # <<>>

C18_HashOrderAndElements ==
    /\ hashed.op = "reorder" =>
          calculate_hash(hashed.after) = calculate_hash(hashed.before)
    /\ hashed.op = "change" =>
          calculate_hash(hashed.after) # calculate_hash(hashed.before)

\* the product list, two of whose entries share a value, in another order
C18_Witness ==
    /\ hashed.op = "reorder" /\ hashed.field = "products"
    /\ hashed.after.products # hashed.before.products
    /\ truthy(hashed.before.form_elements)

\* C19: the structural_hash of every fingerprint capture_thumbprint returns is
\* calculate_hash() of the fields the fingerprint is returned with; so is that of
\* the baseline a first validate saved, and the current_hash validate reports
C19_HashOfFinalFields ==
    (vcall.op \in {"validate", "capture"} /\ fetched.status = "ok") =>
        /\ Fresh.structural_hash = calculate_hash(Fresh)
        /\ exists(thumbprint_dir, vcall.page_type) =>
              Baseline.structural_hash = calculate_hash(Baseline)
        /\ vresult.returned => vresult.current_hash = calculate_hash(Fresh)

\* the GET of initialize is answered
InitializeAnswered == pc = "GET" /\ trace' = Append(trace, "GET")

\* C20: initialize raises when the page it fetched lacks the __VIEWSTATE marker or
\* the __VIEWSTATEGENERATOR marker, and when it raises, on such a page or on a
\* failed request, the token, the generator and the two last-updated dates of the
\* session are what they were before the call
C20_FailedInitializeKeepsSession ==
    [][InitializeAnswered =>
          /\ (lastAns'.status = "ok" /\ lastResp' = NoToken) => raised' = ErrNoViewState
          /\ lastAns'.status # "ok" => raised' \in {ErrConnection, ErrHTTP}
          /\ raised' # NoError =>
                /\ pc' = "idle"
                /\ sess'.viewstate = sess.viewstate
                /\ sess'.viewstate_generator = sess.viewstate_generator
                /\ sess'.call_updated = sess.call_updated
                /\ sess'.ubpr_updated = sess.ubpr_updated]_vars

\* an initialize of a session that holds a token and dates failed on a page without
\* the markers
C20_Witness ==
    /\ pc = "idle" /\ call.op = "initialize"
    /\ raised = ErrNoViewState
    /\ lastAns.status = "ok" /\ lastResp = NoToken
    /\ sess.viewstate # None /\ sess.viewstate_generator # None
    /\ sess.call_updated # NoDate /\ sess.ubpr_updated # NoDate

\* C21: select_product never returns an empty period list: when the answer to its
\* request is taken over and holds no period selector, or a period selector without
\* an option, it raises
C21_EmptySelectorRaises ==
    (pc = "idle" /\ call.op = "select_product" /\ trace # <<>>
        /\ Last(trace) = "product") =>
        /\ result.kind = "periods" => result.periods # <<>>
        /\ raised = NoError => result.kind = "periods"

\* a date as a number that orders dates
DateOrdinal(dt) == dt.y * 10000 + dt.m * 100 + dt.d

\* C22: the list select_product returns is ordered most-recent-first by period date,
\* whatever the order of the options in the answer, so the period get_latest_period
\* takes from it has the greatest date
C22_PeriodsMostRecentFirst ==
    (pc = "idle" /\ call.op = "select_product" /\ result.kind = "periods") =>
        /\ \A i, j \in 1..Len(result.periods) :
              i < j => DateOrdinal(ReportingPeriod_date(result.periods[i]))
                          >= DateOrdinal(ReportingPeriod_date(result.periods[j]))
        /\ result.periods # <<>> =>
              \A i \in 1..Len(result.periods) :
                 DateOrdinal(ReportingPeriod_date(
                                get_latest_period(result.periods).period))
                    >= DateOrdinal(ReportingPeriod_date(result.periods[i]))

\* the request of initialize, select_product, select_period or select_format is
\* answered by a transport error or an HTTP error status
RequestFails ==
    /\ pc \in {"GET", "POST_product", "POST_period", "POST_format"}
    /\ trace' = Append(trace, lastReq'.kind)
    /\ lastAns'.status \in {"conn_error", "http_error"}

\* token, generator, selected product, selected period and period list
SelectionState(s) ==
    <<s.viewstate, s.viewstate_generator, s.current_product, s.current_period,
      s.available_periods>>

\* C23 as stated: an operation whose request fails leaves token, generator, selected
\* product, selected period and period list as they were before the call.  A
\* select_product that sent a GET of its own began without a token
C23_FailedRequestKeepsCallState ==
    [][(RequestFails /\ call.op \in {"initialize", "select_product", "select_period",
                                     "select_format"}) =>
          /\ pc' = "idle" /\ raised' \in {ErrConnection, ErrHTTP}
          /\ SelectionState(sess') = SelectionState(sess)
          /\ (call.op = "select_product" /\ trace # <<>>) =>
                sess'.viewstate = None /\ sess'.viewstate_generator = None]_vars

\* C23, amended: a request that fails changes nothing: token, generator, selected
\* product, selected period and period list are after it what they were when it was
\* sent, and the operation ends with the error of the request
C23_FailedRequestKeepsSession ==
    [][RequestFails =>
          /\ pc' = "idle" /\ raised' \in {ErrConnection, ErrHTTP}
          /\ SelectionState(sess') = SelectionState(sess)]_vars

\* a select_period of a session with a token, a product, a period and a period list
\* ended on a failed request
C23_Witness ==
    /\ pc = "idle" /\ call.op = "select_period"
    /\ trace = <<"period">>
    /\ lastAns.status = "http_error" /\ raised = ErrHTTP
    /\ sess.viewstate # None /\ sess.current_product # None
    /\ sess.current_period # NoPeriod /\ sess.available_periods # <<>>

\* the records process_xml has written so far
Emitted == chain([k \in DOMAIN xbrl.tmp |-> xbrl.tmp[k].ret_data])

ValueSlots == {"int_data", "float_data", "bool_data", "str_data"}

\* C26: every record process_xml emits has a data_type tag and exactly one of the
\* slots int_data, float_data, bool_data and str_data, the one its tag names
C26_OneValueSlot ==
    \A k \in DOMAIN Emitted :
        LET rec == Emitted[k]
        IN /\ "data_type" \in DOMAIN rec
           /\ rec.data_type \in {"int", "float", "bool", "str"}
           /\ Cardinality(DOMAIN rec \cap ValueSlots) = 1
           /\ rec.data_type = "int" => "int_data" \in DOMAIN rec
           /\ rec.data_type = "float" => "float_data" \in DOMAIN rec
           /\ rec.data_type = "bool" => "bool_data" \in DOMAIN rec
           /\ rec.data_type = "str" => "str_data" \in DOMAIN rec

\* a member was written whose records carry three different tags
C26_Witness ==
    /\ Len(Emitted) = 3
    /\ Emitted[1].data_type = "int" /\ Emitted[1].int_data = 2
    /\ Emitted[2].data_type = "bool" /\ Emitted[2].bool_data
    /\ Emitted[3].data_type = "float" /\ Emitted[3].float_data = Fraction(3, 2)

\* the elements of a document process_xml goes through, in its order
KeysToParse(data) ==
    SelectSeq(data.elements, LAMBDA e : has_part(e.name, "cc:"))
    \o SelectSeq(data.elements, LAMBDA e : has_part(e.name, "uc:"))

\* the records of the items of an element that parse
WellFormedOf(e) ==
    LET rows == [j \in DOMAIN e.items |-> xbrl_row(e.name, e.items[j])]
        good == SelectSeq(rows, LAMBDA r : ~r.raised)
    IN [j \in DOMAIN good |-> new_dict(good[j])]

\* the members the loop has passed that are XML documents of a qualifying name
PassedDocuments ==
    SelectSeq([j \in 1..(xbrl.i - 1) |-> xbrl.files[j]],
              LAMBDA file : qualifies(file) /\ file.data.parsed)

\* C24: an item that does not parse is skipped alone: no error is raised for its
\* member, and the output holds the records of all the other items of the member
C24_BadItemSkippedAlone ==
    /\ \A j \in 1..(xbrl.i - 1) :
          (qualifies(xbrl.files[j]) /\ xbrl.files[j].data.parsed) => j \notin xbrl.errors
    /\ Emitted =
          chain([m \in DOMAIN PassedDocuments |->
                    chain([k \in DOMAIN KeysToParse(PassedDocuments[m].data) |->
                              WellFormedOf(KeysToParse(PassedDocuments[m].data)[k])])])

\* the text of a list without an entry
EmptyList == <<Piece("[", <<>>), Piece("]", <<>>)>>

\* C25: a member whose processing raises is skipped and the later members are still
\* processed; only members whose name ends in .xml and holds RSSD are processed;
\* and when no member is written the call returns the text of an empty list
C25_FailedMembersSkipped ==
    /\ xbrl.i \in 0..(Len(xbrl.files) + 1)
    /\ xbrl.errors =
          {j \in 1..(xbrl.i - 1) :
              qualifies(xbrl.files[j]) /\ process_xml(xbrl.files[j].data).raised}
    /\ Emitted =
          chain([j \in 1..(xbrl.i - 1) |->
                    IF qualifies(xbrl.files[j])
                    THEN process_xml(xbrl.files[j].data).ret_data ELSE <<>>])
    /\ (xbrl.returned /\ \A k \in DOMAIN xbrl.tmp : xbrl.tmp[k].kind # "json") =>
          xbrl.ret_str = EmptyList

\* the call was given one member holding one item under a cc: or uc: name, whose
\* context has an id and a date, and the loop has passed it
OneItemPassed ==
    /\ Len(xbrl.files) = 1 /\ xbrl.i = 2
    /\ qualifies(xbrl.files[1]) /\ xbrl.files[1].data.parsed
    /\ Len(xbrl.files[1].data.elements) = 1
    /\ Len(xbrl.files[1].data.elements[1].items) = 1
    /\ \/ has_part(xbrl.files[1].data.elements[1].name, "cc:")
       \/ has_part(xbrl.files[1].data.elements[1].name, "uc:")
    /\ LET context == xbrl.files[1].data.elements[1].items[1].context
       IN /\ context # NoContext /\ Len(context) >= 2
          /\ \E i \in DOMAIN context : context[i] \in DateParts

TheItem == xbrl.files[1].data.elements[1].items[1]

OneRecord(data_type) == Len(Emitted) = 1 /\ Emitted[1].data_type = data_type

C28_ThousandsTruncated ==
    (OneItemPassed /\ TheItem.unit = "USD" /\ ~int_of(TheItem.text).raised) =>
        LET n == int_of(TheItem.text).value
        IN (n \in (0 - MaxAmount)..MaxAmount /\ TheItem.text = IntText(n)) =>
               /\ OneRecord("int")
               /\ Abs(Emitted[1].int_data) * 1000 <= Abs(n)
               /\ Abs(n) < Abs(Emitted[1].int_data) * 1000 + 1000
               /\ Emitted[1].int_data > 0 => n > 0
               /\ Emitted[1].int_data < 0 => n < 0
               /\ n = 1000 => Emitted[1].int_data = 1

C28_Witness ==
    /\ OneItemPassed
    /\ TheItem.unit = "USD" /\ TheItem.text = <<"-", "9", "9", "9">>
    /\ OneRecord("int") /\ Emitted[1].int_data = 0

\* C29: against one period list, the 8-digit key and the slash form of the date
\* of an entry give the identical period, the first entry whose display string is
\* the slash form; a date of no entry raises the not-found error in both forms
C29_KeyAndSlashAgree ==
    (lookup.done = {"key", "slash"} /\ lookup.periods # <<>>) =>
        IF lookup.in_list
        THEN /\ lookup.by_key = lookup.by_slash
             /\ lookup.by_key.raised = NoError
             /\ \E i \in DOMAIN lookup.periods :
                   /\ lookup.by_key.period = lookup.periods[i]
                   /\ lookup.periods[i].date_str = lookup.slash
                   /\ \A j \in 1..(i - 1) : lookup.periods[j].date_str # lookup.slash
        ELSE /\ lookup.by_key.raised = ErrPeriodNotFound
             /\ lookup.by_slash.raised = ErrPeriodNotFound

\* what the call p gives when it runs alone on the directory the two began on
Alone(p) ==
    validate(conc.dir0, conc.procs[p].page, KNOWN_URL(conc.procs[p].page_type),
             conc.procs[p].page_type)

\* C30: two validate calls at once for different categories do not conflict:
\* under every interleaving of their steps each call touches the baseline file
\* of its own category only and gives what it gives when run alone
C30_DifferentCategoriesIndependent ==
    (conc # NoConc /\ conc.procs[1].page_type # conc.procs[2].page_type) =>
        /\ \A p \in 1..2 :
              IF conc.procs[p].at = "done"
              THEN /\ conc.procs[p].raised = Alone(p).raised
                   /\ conc.procs[p].result = Alone(p).result
                   /\ thumbprint_dir[conc.procs[p].page_type] =
                         Alone(p).dir[conc.procs[p].page_type]
              ELSE thumbprint_dir[conc.procs[p].page_type] =
                      conc.dir0[conc.procs[p].page_type]
        /\ \A page_type \in PageTypes :
              (\A p \in 1..2 : conc.procs[p].page_type # page_type) =>
                  thumbprint_dir[page_type] = conc.dir0[page_type]

\* step by step in turn, the first call saves a first baseline and the second
\* compares with the baseline it found
C30_Witness ==
    /\ conc # NoConc
    /\ conc.order = <<1, 2, 1, 2, 1, 2>>
    /\ conc.procs[1].page_type = "bulk_download" /\ conc.procs[2].page_type = "taxonomy"
    /\ conc.procs[1].at = "done" /\ conc.procs[2].at = "done"
    /\ conc.dir0["bulk_download"] = NoThumbprint
    /\ thumbprint_dir["bulk_download"] = conc.procs[1].current
    /\ conc.procs[1].result.stored_hash = NoHash
    /\ conc.procs[2].result.returned /\ conc.procs[2].result.stored_hash # NoHash

\* the download of instance i run alone on a new instance, given the responses
\* instance i got
RunAlone(i) ==
    LET begun == download_begin(NewInstance, insts[i].call.product, insts[i].call.arg,
                                insts[i].call.format)
        F[k \in 0..Len(insts[i].got)] ==
            IF k = 0 THEN begun ELSE download_step(F[k - 1], insts[i].got[k])
    IN F[Len(insts[i].got)]

DateOfMarker(text) ==
    CASE text = Text_7_15_2025 -> [y |-> 2025, m |-> 7, d |-> 15]
      [] text = Text_7_15_20255 -> [y |-> 2025, m |-> 7, d |-> 15]
      [] text = Text_6_30_2025 -> [y |-> 2025, m |-> 6, d |-> 30]
      [] OTHER -> NoDate

\* C32: extracting the two last-updated dates never raises: for each family on
\* its own, a marker that is absent or whose text is no date gives no date, the
\* date of the other family is still extracted, and initialize succeeds
C32_DatesNeverRaise ==
    (applied.fn = "initialize" /\ applied.done /\ applied.resp.status = "ok"
        /\ has_viewstate(applied.resp)) =>
        /\ applied.value.raised = NoError
        /\ applied.value.sess.call_updated = DateOfMarker(applied.resp.call_text)
        /\ applied.value.sess.ubpr_updated = DateOfMarker(applied.resp.ubpr_text)
        /\ applied.value.sess.viewstate = applied.resp.token.vs

C32_Witness ==
    /\ applied.fn = "initialize" /\ applied.done
    /\ applied.resp.call_text = Text_13_45_2025
    /\ applied.resp.ubpr_text = Text_6_30_2025
    /\ applied.value.raised = NoError
    /\ applied.value.sess.call_updated = NoDate
    /\ applied.value.sess.ubpr_updated = [y |-> 2025, m |-> 6, d |-> 30]

\* C33: for every ReportingPeriod with a valid date, quarter is the quarter of
\* the month (1-3 give 1, 4-6 give 2, 7-9 give 3, 10-12 give 4), which is
\* (month - 1) div 3 + 1, and the key is the eight digits of year, month and day
C33_QuarterAndKey ==
    (applied.fn = "period" /\ applied.done /\ applied.value.raised = NoError) =>
        LET date == ReportingPeriod_date(applied.period)
        IN /\ applied.value.quarter \in 1..4
           /\ applied.value.quarter = (date.m - 1) \div 3 + 1
           /\ date.m \in 1..3 => applied.value.quarter = 1
           /\ date.m \in 4..6 => applied.value.quarter = 2
           /\ date.m \in 7..9 => applied.value.quarter = 3
           /\ date.m \in 10..12 => applied.value.quarter = 4
           /\ applied.value.year = date.y
           /\ Len(applied.value.key) = 8 /\ isdigit(applied.value.key)
           /\ strptime_Ymd(applied.value.key) = date
           /\ applied.period.date_str = Date_03_31_2024 =>
                 /\ applied.value.quarter = 1 /\ applied.value.year = 2024
                 /\ applied.value.key = <<"2", "0", "2", "4", "0", "3", "3", "1">>
           /\ applied.period.date_str = <<"9", "/", "3", "0", "/", "2", "0", "2", "4">> =>
                 /\ applied.value.quarter = 3
                 /\ applied.value.key = <<"2", "0", "2", "4", "0", "9", "3", "0">>

C33_Witness ==
    /\ applied.fn = "period" /\ applied.done /\ applied.value.raised = NoError
    /\ applied.period.date_str = Date_12_31_2023
    /\ applied.value.quarter = 4
    /\ applied.value.key = Key_20231231

\* the label of a product in a file name
LabelOf(product) ==
    CASE product = "CALL_SINGLE" -> <<"Call Bulk">>
      [] product = "CALL_FOUR_PERIODS" -> <<"Call Bulk Subset of Schedules">>
      [] product = "UBPR_RATIO_SINGLE" -> <<"UBPR", " ", "Ratio", " ", " ", "Single", " ", "Period">>
      [] product = "UBPR_RATIO_FOUR" -> <<"UBPR", " ", "Ratio", " ", " ", "Four", " ", "Periods">>
      [] product = "UBPR_RANK_FOUR" -> <<"UBPR", " ", "Rank", " ", " ", "Four", " ", "Periods">>
      [] product = "UBPR_STATS_FOUR" -> <<"UBPR", " ", "Stats", " ", " ", "Four", " ", "Periods">>

\* C34: the expected file name is a function of product, period and format
\* alone: the prefix, the label of the product (Call Bulk, Call Bulk Subset of
\* Schedules, or the display label of a UBPR product without its double hyphen),
\* the format and the month, day and year of the period; CALL_SINGLE, XBRL and
\* 03/31/2024 give FFIEC CDR Call Bulk XBRL 03312024.zip
C34_ExpectedFilename ==
    (applied.fn = "filename" /\ applied.done /\ applied.value.raised = NoError) =>
        LET date == ReportingPeriod_date(applied.period)
        IN /\ applied.value.filename =
                 <<"FFIEC CDR", " ">> \o LabelOf(applied.product)
                    \o <<" ", applied.format, " ">>
                    \o Pad2(date.m) \o Pad2(date.d) \o Pad4(date.y) \o <<".zip">>
           /\ \A v \in {"146", "145", "7"} :
                 get_expected_filename(applied.product,
                                       [applied.period EXCEPT !.value = v],
                                       applied.format) = applied.value.filename
           /\ (/\ applied.product = "CALL_SINGLE" /\ applied.format = "XBRL"
               /\ applied.period.date_str = Date_03_31_2024) =>
                 applied.value.filename =
                    <<"FFIEC CDR", " ", "Call Bulk", " ", "XBRL", " ",
                      "0", "3", "3", "1", "2", "0", "2", "4", ".zip">>

C34_Witness ==
    /\ applied.fn = "filename" /\ applied.done
    /\ applied.product = "CALL_FOUR_PERIODS" /\ applied.format = "TSV"
    /\ applied.period.date_str = <<"6", "/", "3", "0", "/", "2", "0", "2", "4">>
    /\ applied.value.filename =
          <<"FFIEC CDR", " ", "Call Bulk Subset of Schedules", " ", "TSV", " ",
            "0", "6", "3", "0", "2", "0", "2", "4", ".zip">>

\* the values of the options of the selector that came with the selected product
ListedValues == {listed.options[i].value : i \in DOMAIN listed.options}

\* C35: a selected period is an entry of the period list the portal returned for
\* the selected product, and a select_format or trigger POST never carries a
\* period that is not in that list
C35_PeriodOfSelectedProduct ==
    /\ sess.current_period # NoPeriod =>
          /\ sess.current_product # None
          /\ \E i \in DOMAIN listed.options : listed.options[i] = sess.current_period
    /\ (lastReq.kind \in {"format", "trigger"} /\ lastReq.DatesDropDownList # None) =>
          lastReq.DatesDropDownList \in ListedValues

\* C36: the period list the client holds is the list parsed from the response
\* that set the selected product, also after a select_product that failed for a
\* missing selector; a date is never resolved against the list of another product
C36_ListOfSelectedProduct ==
    /\ sess.current_product # None => sess.available_periods = listed.options
    /\ sess.available_periods # <<>> => listOwner = sess.current_product
    /\ (call.op = "select_period" /\ call.arg.is_str /\ call.period # NoPeriod) =>
          listOwner = sess.current_product

\* C37: validate never returns a result that is not valid: it returns a valid
\* result or raises, a critical difference shows as WebpageChangeException only,
\* and in the dictionary of validate_all as an entry without hashes
C37_NeverReturnsInvalid ==
    /\ vresult.returned => (vresult.valid /\ vresult.critical_changes = <<>>)
    /\ vcall.op = "validate" =>
          /\ vresult.returned <=> vraised = NoError
          /\ vresult.critical_changes # <<>> <=> vraised = ErrWebpageChange
    /\ \A page_type \in DOMAIN results :
          IF results[page_type].valid
          THEN results[page_type].returned
          ELSE DOMAIN results[page_type] = {"valid", "error"}

\* a validate that met a critical difference
C37_Witness ==
    /\ vcall.op = "validate" /\ vcall.had_baseline
    /\ vraised = ErrWebpageChange
    /\ ~vresult.returned /\ vresult.critical_changes # <<>>

\* the call that did the latest step
LastStepper == conc.order[Len(conc.order)]

\* both calls are for one category without a baseline, and both ended on the
\* path of the first run
BothFirstRun ==
    /\ conc # NoConc
    /\ conc.procs[1].page_type = conc.procs[2].page_type
    /\ conc.dir0[conc.procs[1].page_type] = NoThumbprint
    /\ \A p \in 1..2 :
          /\ conc.procs[p].at = "done" /\ conc.procs[p].result.returned
          /\ conc.procs[p].result.stored_hash = NoHash

\* C38: two validate calls at once for one category without a baseline can both
\* find no baseline and both take the path of the first run; the baseline is then
\* written twice and holds the later write, the earlier one being lost
C38_LaterSaveWins ==
    BothFirstRun =>
        /\ thumbprint_dir[conc.procs[1].page_type] = conc.procs[LastStepper].current
        /\ \A p \in 1..2 :
              conc.procs[p].result.warnings = <<Warning("First run - thumbprint saved", {})>>

\* the first call saved its capture, the second replaced it with another
C38_Witness ==
    /\ BothFirstRun
    /\ conc.order = <<1, 2, 1, 2, 1, 2>>
    /\ conc.procs[1].current # conc.procs[2].current
    /\ thumbprint_dir[conc.procs[1].page_type] = conc.procs[2].current

\* the pieces of the returned text between its first and its last piece
Inner(text) == SubSeq(text, 2, Len(text) - 1)

\* C39: the text process_xbrl_file returns is a well-formed list: an opening bracket
\* first, a closing bracket last, and between them the outputs of the written
\* members with one comma between two consecutive outputs and none before the first
\* or after the last
C39_WellFormedList ==
    xbrl.returned =>
        /\ Len(xbrl.ret_str) >= 2
        /\ xbrl.ret_str[1].kind = "["
        /\ xbrl.ret_str[Len(xbrl.ret_str)].kind = "]"
        /\ Len(Inner(xbrl.ret_str)) = 0 \/ Len(Inner(xbrl.ret_str)) % 2 = 1
        /\ \A k \in DOMAIN Inner(xbrl.ret_str) :
              Inner(xbrl.ret_str)[k].kind = IF k % 2 = 1 THEN "json" ELSE ","

\* the product list, the button ids and the radio ids of a fingerprint, each without
\* its order
Collections(t) ==
    <<BagOf(OrEmpty(t.products)), set(OrEmpty(t.download_button_ids)),
      set(OrEmpty(t.radio_button_ids))>>

\* C40: two fingerprints with the same url, flags, generator value and form elements
\* and different product lists, button ids or radio ids never have the same
\* serialization, so never the same hash
C40_SerializationUnambiguous ==
    ( /\ hashed.before.url = hashed.after.url
      /\ hashed.before.viewstate_present = hashed.after.viewstate_present
      /\ hashed.before.viewstate_generator_present =
            hashed.after.viewstate_generator_present
      /\ hashed.before.viewstate_generator_value = hashed.after.viewstate_generator_value
      /\ hashed.before.form_elements = hashed.after.form_elements
      /\ Collections(hashed.before) # Collections(hashed.after) )
    => calculate_hash(hashed.before) # calculate_hash(hashed.after)

====
